---- MODULE Spec2Model ----
(***************************************************************************)
(* RSS monitor worker (src/src/index.js): one check cycle per trigger,     *)
(* dedup store, two-strategy rewrite with retry, chunking and delivery.    *)
(*                                                                         *)
(* Every action of the cycle is one run-to-await segment of the code: it   *)
(* starts when an awaited promise settles (a response arrives, a sleep     *)
(* ends) and runs the synchronous code up to the next await, issuing the   *)
(* next request on the way.                                                *)
(***************************************************************************)
EXTENDS Integers, Sequences, FiniteSets, TLC

\* ---------------------------------------------------------------- CONFIG
MAX_RETRIES == 2
RETRY_DELAY_BASE == 1000
ITEM_TTL == 604800
MESSAGE_DELAY == 1000
SAFE_MESSAGE_LENGTH == 3800
TELEGRAM_MAX_LENGTH == 4096
maxRequestsPerMinute == 20
DefaultRetryAfter == 60

\* ---------------------------------------------------------------- bounds
MaxChunks == 2      \* chunks of one generated text
MaxRejects == 1     \* non-OK answers of the messaging API per cycle
MaxTicks == 2       \* clock advances
MaxRetriesArg == 3  \* largest maxRetries passed to retryOperation
MaxTextLen == 7     \* longest text passed to splitMessageSmart
MaxSplitLength == 4 \* largest maxLength passed to splitMessageSmart
MaxDeliverChunks == 3   \* most chunks passed to one delivery call
MaxDeliverRejects == 2  \* non-OK answers during one delivery call
MaxFeedLen == 3         \* entries of a parsed feed document
MaxPolled == 2          \* entries of the feed the cycles poll
MaxElements == 2        \* elements of an article page
MaxFormatLen == 3       \* symbols of a generated text given to processContent

NULL == "null"

Cycles == {"manual", "scheduled"}

\* ------------------------------------------------------------ feed items
\* Parsed items as getLatestRSSItem returns them (title is never empty:
\* parseRSSItems drops such items).
NoItem == [title |-> NULL, link |-> NULL, guid |-> NULL]

Items ==
  { [title |-> "Test", link |-> "http://x/1", guid |-> "g1"],
    [title |-> "C",    link |-> NULL,         guid |-> "g3"] }

\* The items a polled feed can hold besides: one identified by its link,
\* one by its fingerprint, and one with neither guid nor link whose title
\* has a character outside Latin-1.
PolledItems ==
  Items \cup
  { [title |-> "B",      link |-> "http://x/2", guid |-> NULL],
    [title |-> "C",      link |-> NULL,         guid |-> NULL],
    [title |-> "U+062E", link |-> NULL,         guid |-> NULL] }

Falsy(s) == s \in {NULL, ""}

\* btoa throws InvalidCharacterError on a character above U+00FF.
BtoaThrows(item) == item.title = "U+062E"

\* btoa(title + description prefix) with the non-alphanumerics removed.
generateItemId(item) ==
  CASE item.title = "Test" -> "VGVzdA"
    [] item.title = "B" -> "Qg"
    [] item.title = "C" -> "Qw"
    [] OTHER -> ""

\* Variant: the link before the guid.
ItemIdOfLinkFirst(item) ==
  IF ~Falsy(item.link) THEN item.link
  ELSE IF ~Falsy(item.guid) THEN item.guid
  ELSE generateItemId(item)

\* handleRSSCheck: latestItem.guid || latestItem.link || generateItemId(..)
ItemIdOf(item) ==
  IF ~Falsy(item.guid) THEN item.guid
  ELSE IF ~Falsy(item.link) THEN item.link
  ELSE generateItemId(item)

\* latestItem.guid || latestItem.link || generateItemId(latestItem) throws.
ItemIdThrows(item) ==
  Falsy(item.guid) /\ Falsy(item.link) /\ BtoaThrows(item)

\* Every text that can serve as an identity of a polled item.
ItemIds ==
  { id \in UNION {{it.guid, it.link, generateItemId(it)} : it \in PolledItems} :
      ~Falsy(id) }

WellFormedUrl(l) == l \in {"http://x/1", "http://x/2"}

\* Variant: only the title is looked at.
validateRSSItemTitleOnly(item) ==
  IF Falsy(item.title) THEN "MISSING_TITLE" ELSE NULL

\* validateRSSItem: NULL when the item passes, else the RSSError code.
validateRSSItem(item) ==
  IF Falsy(item.title) THEN "MISSING_TITLE"
  ELSE IF Falsy(item.link) THEN "MISSING_LINK"
  ELSE IF ~WellFormedUrl(item.link) THEN "INVALID_URL"
  ELSE NULL

\* ------------------------------------------------------------- the feed
\* The pubDate parseRSSItem extracts from an entry: none (no pubDate,
\* published or updated element, or an empty one), a text that Date cannot
\* parse, or a date, held as its time value in days since the epoch.
NoDate == [kind |-> "none", t |-> 0]

BadDate == [kind |-> "bad", t |-> 0]

At(t) == [kind |-> "date", t |-> t]

PubDates == {NoDate, BadDate, At(0 - 1), At(1), At(2)}

\* A number of the comparator: NaN or an integer.
NaN == [nan |-> TRUE, n |-> 0]

Num(n) == [nan |-> FALSE, n |-> n]

\* new Date(a.pubDate || 0): a missing date is the epoch, an unparsable
\* one is an Invalid Date, whose time value is NaN.
DateOf(item) ==
  CASE item.pubDate.kind = "none" -> Num(0)
    [] item.pubDate.kind = "bad" -> NaN
    [] OTHER -> Num(item.pubDate.t)

\* The comparator of items.sort: dateB - dateA.
compareFn(a, b) ==
  LET dateA == DateOf(a)
      dateB == DateOf(b)
  IN IF dateA.nan \/ dateB.nan THEN NaN ELSE Num(dateB.n - dateA.n)

\* Array.prototype.sort reads a NaN of the comparator as +0.
SortCompare(a, b) ==
  LET v == compareFn(a, b) IN IF v.nan THEN 0 ELSE v.n

\* Array.prototype.sort, stable: an element goes behind the last element
\* it does not sort before (insertion from the right, as the engine sorts
\* a short array).
RECURSIVE InsertSorted(_, _)
InsertSorted(sorted, x) ==
  IF sorted = <<>> \/ SortCompare(sorted[Len(sorted)], x) <= 0
  THEN Append(sorted, x)
  ELSE Append(InsertSorted(SubSeq(sorted, 1, Len(sorted) - 1), x),
              sorted[Len(sorted)])

RECURSIVE sort(_)
sort(items) ==
  IF items = <<>> THEN <<>>
  ELSE InsertSorted(sort(SubSeq(items, 1, Len(items) - 1)), items[Len(items)])

\* if (item && item.title) items.push(item)
HasTitle(item) == ~Falsy(item.title)

\* parseRSSItems, from the entries of the document in document order.
parseRSSItems(entries) == sort(SelectSeq(entries, HasTitle))

\* ------------------------------------------------------- generated texts
\* A text is its sequence of words plus the number of chunks
\* splitMessageSmart cuts it into (the cut itself is modelled character by
\* character by splitMessageSmart below).
IsTag(w) == w \in {"<b>", "</b>"}

ToLower(w) ==
  CASE w = "###ERROR1###" -> "###error1###"
    [] w = "###Error2###" -> "###error2###"
    [] OTHER -> w

toLowerCase(ws) == [i \in 1..Len(ws) |-> ToLower(ws[i])]

includes(ws, w) == \E i \in 1..Len(ws) : ws[i] = w

Article(n) == [words |-> <<"<b>", "title", "</b>", "body">>, nchunks |-> n]

NoText == [words |-> <<>>, nchunks |-> 0]

GoodTexts == {Article(n) : n \in 1..MaxChunks}

SentinelTexts ==
  { [words |-> <<"###error1###">>, nchunks |-> 1],
    [words |-> <<"sorry", "###ERROR1###">>, nchunks |-> 1],
    [words |-> <<"###Error2###">>, nchunks |-> 1] }

Texts == GoodTexts \cup SentinelTexts

HasSentinel1(ws) == includes(toLowerCase(ws), "###error1###")
HasSentinel2(ws) == includes(toLowerCase(ws), "###error2###")

\* What the generation backend may answer to one request.
GeminiAnswers ==
  {[kind |-> "text", text |-> t] : t \in Texts}
    \cup {[kind |-> k, text |-> NoText] :
            k \in {"http_error", "no_candidates", "no_content", "network"}}

\* Variant: the sentinels are looked for without toLowerCase().
GeminiErrorOfCaseSensitive(ans) ==
  CASE ans.kind = "network" -> "NETWORK"
    [] ans.kind = "http_error" -> "API_ERROR"
    [] ans.kind = "no_candidates" -> "NO_CANDIDATES"
    [] ans.kind = "no_content" -> "NO_CONTENT"
    [] OTHER ->
         IF includes(ans.text.words, "###error1###") THEN "URL_CONTEXT_FAIL"
         ELSE IF includes(ans.text.words, "###error2###")
              THEN "HTML_CONTENT_FAIL"
              ELSE NULL

\* makeGeminiRequest + extractGeminiContent: NULL when the text is returned,
\* else the code of the error thrown.
GeminiErrorOf(ans) ==
  CASE ans.kind = "network" -> "NETWORK"
    [] ans.kind = "http_error" -> "API_ERROR"
    [] ans.kind = "no_candidates" -> "NO_CANDIDATES"
    [] ans.kind = "no_content" -> "NO_CONTENT"
    [] OTHER ->
         IF HasSentinel1(ans.text.words) THEN "URL_CONTEXT_FAIL"
         ELSE IF HasSentinel2(ans.text.words) THEN "HTML_CONTENT_FAIL"
         ELSE NULL

\* processContent(content).messages: one message per chunk.
processContent(content) ==
  [i \in 1..content.nchunks |-> [words |-> content.words, part |-> i]]

\* cleanHtmlForDisplay: every tag removed.
cleanHtmlForDisplay(msg) ==
  [msg EXCEPT !.words = SelectSeq(msg.words, LAMBDA w : ~IsTag(w))]


\* What the messaging API may answer to one sendMessage request:
\* "ok" (200), "bad" (400), "rate" (429, retry_after given or not) and
\* "throw" (fetch rejects or the body is not JSON).
TelegramAnswers ==
  { [kind |-> "ok", retry_after |-> 0], [kind |-> "bad", retry_after |-> 0],
    [kind |-> "rate", retry_after |-> 0], [kind |-> "rate", retry_after |-> 5],
    [kind |-> "throw", retry_after |-> 0] }

\* ------------------------------------------------------------ dedup store
Key(itemId) == <<"processed_item_", itemId>>

Keys == {Key(id) : id \in ItemIds}

NoValue == [processed_at |-> 0, item_id |-> NULL, gemini_output |-> <<>>]

Absent == [present |-> FALSE, value |-> NoValue, expires |-> 0]

VARIABLES
  store,    \* RSS_STORAGE: key -> Absent or [present, value, expires]
  now,      \* wall clock, seconds
  ticks,    \* number of clock advances so far
  env,      \* [telegraphToken : BOOLEAN], read-only configuration
  cyc,      \* per trigger: the state of its check cycle
  hist,     \* history of all cycles
  rt,       \* one call of retryOperation(operation, maxRetries)
  sp,       \* one call of splitMessageSmart(text, maxLength)
  dv,       \* one call of sendToTelegramWithRateLimit, with its event log
  feed,     \* the feed as served, and what parseRSSItems makes of it
  page      \* one call of extractMainContent(html)

vars == <<store, now, ticks, env, cyc, hist, rt, sp, dv, feed, page>>

\* Variant: a record is returned however old it is.
StoreGetIgnoresExpiry(key) == IF store[key].present THEN store[key] ELSE Absent

\* RSS_STORAGE.get(key, {type:'json'}): the stored value; null (Absent's
\* value, present = FALSE) once the key's expirationTtl has elapsed.
StoreGet(key) ==
  IF store[key].present /\ now < store[key].expires THEN store[key] ELSE Absent

\* Variant: the record is written with no time to live left.
StorePutNoTtl(key, value) ==
  [store EXCEPT ![key] = [present |-> TRUE, value |-> value, expires |-> now]]

\* Variant: a put on a key that is present removes the key.
StorePutToggles(key, value) ==
  [store EXCEPT ![key] =
     IF @.present THEN [@ EXCEPT !.present = FALSE]
     ELSE [present |-> TRUE, value |-> value, expires |-> now + ITEM_TTL]]

\* RSS_STORAGE.put(key, JSON.stringify({...}), {expirationTtl: ITEM_TTL})
StorePut(key, value) ==
  [store EXCEPT ![key] =
     [present |-> TRUE, value |-> value, expires |-> now + ITEM_TTL]]

\* Variants of isItemNew and markItemAsProcessed with one slip each.
isItemNewFailClosed(itemId, readOk) ==
  IF readOk
  THEN LET got == StoreGet(Key(itemId))
       IN [isNew |-> ~got.present,
           gemini_output |-> IF got.present THEN got.value.gemini_output
                             ELSE <<"not available">>]
  ELSE [isNew |-> FALSE, gemini_output |-> <<>>]

isItemNewAlways(itemId, readOk) ==
  [isNew |-> TRUE, gemini_output |-> <<"not available">>]

markItemAsProcessedRethrows(itemId, content, putOk) ==
  [store |-> IF putOk
             THEN [store EXCEPT ![Key(itemId)] =
                     [present |-> TRUE,
                      value |-> [processed_at |-> now, item_id |-> itemId,
                                 gemini_output |-> content.words],
                      expires |-> now + ITEM_TTL]]
             ELSE store,
   threw |-> ~putOk]

\* isItemNew: the object it resolves to, given the outcome of the read.
isItemNew(itemId, readOk) ==
  IF readOk
  THEN LET got == StoreGet(Key(itemId))
       IN [isNew |-> ~got.present,
           gemini_output |-> IF got.present THEN got.value.gemini_output
                             ELSE <<"not available">>]
  ELSE [isNew |-> TRUE, gemini_output |-> <<>>]

\* markItemAsProcessed: the record written under the key.
ProcessedRecord(itemId, content) ==
  [processed_at |-> now, item_id |-> itemId,
   gemini_output |-> IF content.words = <<>> THEN <<"not available">>
                     ELSE content.words]

\* Variant: markItemAsProcessed writes nothing.
markItemAsProcessedSkips(itemId, content, putOk) ==
  [store |-> store, threw |-> FALSE]

\* markItemAsProcessed: the store after the call, the put succeeding or
\* not; a failing put is caught and logged, the call never throws.
markItemAsProcessed(itemId, content, putOk) ==
  [store |-> IF putOk
             THEN StorePut(Key(itemId), ProcessedRecord(itemId, content))
             ELSE store,
   threw |-> FALSE]

\* ------------------------------------------------------------- responses
NoResp == [http |-> 0, status |-> NULL, message |-> NULL, error |-> NULL,
           code |-> NULL, item_id |-> NULL]

\* createResponse(data, status = 200)
createResponse(data, http) == [data EXCEPT !.http = http]

\* Variant: handleRSSCheck's catch block lets the error go on to the
\* caller, so the call ends with no Response.
ErrorResponseRethrows(message, code) == NoResp

\* handleRSSCheck's catch block: error.code || 'UNKNOWN_ERROR', HTTP 500.
ErrorResponse(message, code) ==
  createResponse([NoResp EXCEPT !.status = "error", !.error = message,
                    !.code = IF code = NULL THEN "UNKNOWN_ERROR" ELSE code],
                 500)

\* ----------------------------------------------------------- cycle state
IdleCycle ==
  [pc |-> "idle",           \* the await the cycle is parked at
   outcome |-> NULL,        \* none | duplicate | done | error, once ended
   resp |-> NoResp,         \* the Response handleRSSCheck resolved to
   item |-> NoItem, itemId |-> NULL,
   readFailed |-> FALSE, isNew |-> FALSE,
   op |-> NULL,             \* operation under retryOperation
   attempt |-> 0,           \* retryOperation's loop variable
   lastError |-> NULL,      \* retryOperation's lastError
   urlThrew |-> FALSE,      \* the URL-context strategy threw
   fallbackThrew |-> FALSE, \* the extraction fallback strategy threw
   gotSentinel1 |-> FALSE,  \* the last URL-context answer held ###error1###
   content |-> NoText,
   telegraph |-> NULL,      \* telegraph_result: null | ok | failed
   frames |-> <<>>,         \* sendToTelegramWithRateLimit activations
   results |-> <<>>,        \* telegram_results of the outermost call
   delivered |-> FALSE,     \* the outermost delivery call has returned
   rejects |-> 0,           \* non-OK answers of the messaging API so far
   nGet |-> 0, nPut |-> 0, nGemUrl |-> 0, nGemHtml |-> 0,
   nArt |-> 0, nTgraph |-> 0, nMsg |-> 0,
   putOk |-> FALSE]         \* this cycle's store write succeeded

NoHist == [bothFailed |-> {}, marked |-> [id \in ItemIds |-> -1]]

IdleRetry ==
  [pc |-> "idle", maxRetries |-> 0, attempt |-> 0, lastError |-> NULL,
   calls |-> 0,      \* invocations of operation()
   tries |-> <<>>,   \* the error of each failed attempt, in order
   waits |-> <<>>,   \* the sleeps taken, ms
   thrown |-> NULL]  \* what retryOperation threw

NoSplit == [pc |-> "idle", text |-> <<>>, maxLength |-> 0, chunks |-> <<>>]

NoDelivery == [s |-> IdleCycle, log |-> <<>>, clock |-> 0]

NoFeed == [pc |-> "idle", entries |-> <<>>, items |-> <<>>]

NoPage == [pc |-> "idle", html |-> <<>>, threw |-> FALSE, length |-> 0]

InitWorker ==
  /\ store = [k \in Keys |-> Absent]
  /\ now = 0
  /\ ticks = 0
  /\ cyc = [c \in Cycles |-> IdleCycle]
  /\ hist = NoHist
  /\ dv = NoDelivery
  /\ feed = NoFeed
  /\ page = NoPage

Init ==
  /\ InitWorker
  /\ env \in [telegraphToken : BOOLEAN]
  /\ rt = IdleRetry
  /\ sp = NoSplit

Upd(c, s) == cyc' = [cyc EXCEPT ![c] = s]

\* The cycle ends: handleRSSCheck resolves to resp.
End(s, outcome, resp) == [s EXCEPT !.pc = "done", !.outcome = outcome, !.resp = resp]

\* processRSSItem's catch block. It builds the error result from
\* `content`, which is a let-binding of the try block and not in scope in
\* the catch block: evaluating it throws a ReferenceError (no code), so the
\* call rejects instead of returning {status: 'error', code, ...}.
processRSSItemCatch(code) ==
  [threw |-> TRUE, status |-> "error",
   error |-> "content is not defined", code |-> NULL]

\* processRSSItem's result status once the delivery call has returned.
ResultStatus(telegramResults) == "success"

\* handleRSSCheck: "Mark as processed only if successful".
ShouldMark(status) == status = "success"

\* Variant: the catch block of processRSSItem returns its error result and
\* handleRSSCheck answers with it.
FailProcessReturnsResult(s, code) ==
  End(s, "error",
      createResponse([NoResp EXCEPT !.status = "error", !.error = code,
                        !.code = code, !.item_id = s.itemId], 200))

\* Variant: the item is marked whatever the outcome of the processing.
FailProcessMarks(s, code) == [s EXCEPT !.pc = "marking", !.nPut = @ + 1]

\* handleRSSCheck after processRSSItem failed with error `code`.
FailProcess(s, code) ==
  LET r == processRSSItemCatch(code)
  IN IF r.threw
     THEN End(s, "error", ErrorResponse(r.error, r.code))
     ELSE End(s, "error",
              createResponse([NoResp EXCEPT !.status = r.status,
                                !.error = r.error, !.code = r.code,
                                !.item_id = s.itemId], 200))

\* ---------------------------------------------------------- retryOperation
\* Variant: one attempt too many.
LoopContinuesOffByOne(attempt, maxRetries) == attempt <= maxRetries + 1

\* for (let attempt = 1; attempt <= maxRetries; attempt++)
LoopContinues(attempt, maxRetries) == attempt <= maxRetries

\* if (attempt < maxRetries) { wait }
ShouldWait(attempt, maxRetries) == attempt < maxRetries

\* CONFIG.RETRY_DELAY_BASE * Math.pow(2, attempt - 1)
waitTime(attempt) == RETRY_DELAY_BASE * 2^(attempt - 1)

\* The operation's request goes out.
IssueOp(s) ==
  CASE s.op = "gen_url" -> [s EXCEPT !.pc = "gen", !.nGemUrl = @ + 1]
    [] s.op = "gen_html" -> [s EXCEPT !.pc = "gen", !.nGemHtml = @ + 1]
    [] OTHER -> [s EXCEPT !.pc = "extract", !.nArt = @ + 1]

RECURSIVE Throw(_)

\* The loop test before an attempt; `throw lastError` after the loop.
NextAttempt(s) ==
  IF LoopContinues(s.attempt, MAX_RETRIES) THEN IssueOp(s) ELSE Throw(s)

\* retryOperation(operation) is called.
StartRetry(s, op) ==
  NextAttempt([s EXCEPT !.op = op, !.attempt = 1, !.lastError = NULL])

\* An attempt failed (the catch block of the loop body).
AfterFail(s) ==
  IF ShouldWait(s.attempt, MAX_RETRIES) THEN [s EXCEPT !.pc = "backoff"]
  ELSE NextAttempt([s EXCEPT !.attempt = @ + 1])

\* throw lastError. processRSSItem catches the URL-context strategy's error
\* and starts the extraction fallback; any other error ends the processing.
Throw(s) ==
  IF s.op = "gen_url"
  THEN StartRetry([s EXCEPT !.urlThrew = TRUE], "extract")
  ELSE FailProcess([s EXCEPT !.op = NULL, !.attempt = 0, !.lastError = NULL,
                             !.fallbackThrew = TRUE],
                   s.lastError)

\* ------------------------------------------------------------ delivery
Max(a, b) == IF a >= b THEN a ELSE b

delayBetweenRequests == Max(MESSAGE_DELAY, 60000 \div maxRequestsPerMinute)

Top(s) == s.frames[Len(s.frames)]

\* fetch(.../sendMessage) of messages[i] goes out.
IssueSend(s) ==
  [s EXCEPT !.pc = "sending", !.nMsg = @ + 1]

\* sendToTelegramWithRateLimit(botToken, chatId, msgs, ...) is called.
CallSend(s, msgs) ==
  IssueSend([s EXCEPT !.frames = Append(@, [msgs |-> msgs, i |-> 0,
                                             results |-> <<>>])])

\* The recursive call on a non-OK answer: every message of this call,
\* cleaned by cleanHtmlForDisplay.
Recurse(s) ==
  LET msgs == Top(s).msgs
  IN CallSend(s, [k \in 1..Len(msgs) |-> cleanHtmlForDisplay(msgs[k])])

\* The outermost delivery call returned: processRSSItem returns its result
\* and handleRSSCheck marks the item when the status is 'success'.
DeliveryReturned(s) ==
  LET t == [s EXCEPT !.delivered = TRUE]
  IN IF ShouldMark(ResultStatus(s.results))
     THEN [t EXCEPT !.pc = "marking", !.nPut = @ + 1]
     ELSE End(t, "done",
              createResponse([NoResp EXCEPT
                                !.status = ResultStatus(s.results),
                                !.item_id = s.itemId], 200))

RECURSIVE ReturnFrame(_)

\* Variant: the loop ends at the first message it has dealt with.
NextIterationStops(s) == ReturnFrame(s)

\* for-loop step: i++, then the next message or the end of the loop.
NextIteration(s) ==
  LET d == Len(s.frames)
      top == Top(s)
  IN IF top.i + 1 < Len(top.msgs)
     THEN IssueSend([s EXCEPT !.frames[d].i = @ + 1])
     ELSE ReturnFrame(s)

\* End of the try block of one iteration: the rate limiting delay.
AfterIteration(s) ==
  IF Top(s).i < Len(Top(s).msgs) - 1 THEN [s EXCEPT !.pc = "delay"]
  ELSE NextIteration(s)

\* Variant: the entries of a recursive call are added to the caller's.
ReturnFrameMerges(s) ==
  LET d == Len(s.frames)
  IN IF d = 1
     THEN DeliveryReturned([s EXCEPT !.frames = <<>>,
                                     !.results = s.frames[1].results])
     ELSE AfterIteration(
            [s EXCEPT !.frames =
               [k \in 1..(d - 1) |->
                  IF k = d - 1
                  THEN [s.frames[k] EXCEPT
                          !.results = @ \o s.frames[d].results]
                  ELSE s.frames[k]]])

\* return results: to the caller's `await sendToTelegramWithRateLimit(...)`
\* (which drops them) or, for the outermost call, to processRSSItem.
ReturnFrame(s) ==
  LET d == Len(s.frames)
  IN IF d = 1
     THEN DeliveryReturned([s EXCEPT !.frames = <<>>,
                                     !.results = s.frames[1].results])
     ELSE AfterIteration([s EXCEPT !.frames = SubSeq(s.frames, 1, d - 1)])

\* Variant: the extraction fallback runs although a strategy returned text.
AfterContentAlsoExtracts(s, text, token) ==
  StartRetry([s EXCEPT !.content = text], "extract")

\* Variant: the record is written before anything is delivered.
AfterContentMarksFirst(s, text, token) ==
  [s EXCEPT !.content = text, !.op = NULL, !.attempt = 0, !.lastError = NULL,
            !.pc = "marking", !.nPut = @ + 1]

\* processRSSItem after a strategy returned `text`.
AfterContent(s, text, token) ==
  LET t == [s EXCEPT !.content = text, !.op = NULL, !.attempt = 0,
                     !.lastError = NULL]
  IN IF token THEN [t EXCEPT !.pc = "telegraph", !.nTgraph = @ + 1]
     ELSE CallSend(t, processContent(text))

\* ----------------------------------------------------------------- history
Sentinel1Spellings == {"###error1###", "###ERROR1###"}

HistAfter(s) ==
  [hist EXCEPT !.bothFailed =
     IF s.urlThrew /\ s.fallbackThrew THEN @ \cup {s.item} ELSE @]

\* --------------------------------------------------------------- actions
\* fetch('/check-rss') or the cron trigger: handleRSSCheck starts and
\* getLatestRSSItem's feed request goes out.
Start(c) ==
  /\ \A d \in Cycles : cyc[d].pc = "idle"
  /\ Upd(c, [IdleCycle EXCEPT !.pc = "fetching"])
  /\ UNCHANGED <<rt, sp, dv, store, now, ticks, env, hist, feed, page>>

\* handleRSSCheck with the item getLatestRSSItem returned: the identity,
\* then isItemNew's read goes out; a throw of btoa goes to the catch block.
LatestItem(s, it) ==
  IF ItemIdThrows(it)
  THEN End([s EXCEPT !.item = it], "error",
           ErrorResponse("InvalidCharacterError", NULL))
  ELSE [s EXCEPT !.item = it, !.itemId = ItemIdOf(it),
                 !.pc = "reading", !.nGet = @ + 1]

\* The fields of a parsed item that handleRSSCheck goes on to use.
Strip(item) == [title |-> item.title, link |-> item.link, guid |-> item.guid]

\* getLatestRSSItem returns null for no items, else items[0];
\* handleRSSCheck answers 'No items found' or goes on with the item.
AfterFeed(s, items) ==
  IF items = <<>>
  THEN End(s, "none",
           createResponse([NoResp EXCEPT !.message = "No items found"], 200))
  ELSE LatestItem(s, Strip(items[1]))

\* The feed request settles: getLatestRSSItem throws an RSSError, returns
\* null (no items) or returns items[0]; then isItemNew's read goes out.
FeedResponse(c) ==
  /\ cyc[c].pc = "fetching"
  /\ \/ \E code \in {"HTTP_ERROR", "EMPTY_FEED", "FETCH_ERROR", "PARSE_ERROR"} :
          Upd(c, End(cyc[c], "error", ErrorResponse("rss", code)))
     \/ \E items \in {<<>>} \cup {<<it>> : it \in Items} :
          Upd(c, AfterFeed(cyc[c], items))
  /\ UNCHANGED <<rt, sp, dv, store, now, ticks, env, hist, feed, page>>

\* RSS_STORAGE.get settles (readOk) or rejects: isItemNew resolves; a known
\* item ends the cycle, a new one enters processRSSItem: validateRSSItem,
\* then the URL-context request.
StoreGetReturn(c) ==
  /\ cyc[c].pc = "reading"
  /\ \E readOk \in BOOLEAN :
       LET r == isItemNew(cyc[c].itemId, readOk)
           s == [cyc[c] EXCEPT !.readFailed = ~readOk, !.isNew = r.isNew]
           v == validateRSSItem(s.item)
       IN IF ~r.isNew
          THEN Upd(c, End(s, "duplicate",
                          createResponse([NoResp EXCEPT
                                            !.message = "Item already processed"],
                                         200)))
          ELSE IF v # NULL THEN Upd(c, FailProcess(s, v))
          ELSE Upd(c, StartRetry(s, "gen_url"))
  /\ UNCHANGED <<rt, sp, dv, store, now, ticks, env, hist, feed, page>>

\* A generateContent request settles with one of the given answers.
GeminiSettles(c, answers) ==
  /\ cyc[c].pc = "gen"
  /\ \E ans \in answers :
       LET err == GeminiErrorOf(ans)
           s == [cyc[c] EXCEPT
                   !.lastError = IF err = NULL THEN @ ELSE err,
                   !.gotSentinel1 =
                      /\ cyc[c].op = "gen_url"
                      /\ ans.kind = "text"
                      /\ \E i \in 1..Len(ans.text.words) :
                            ans.text.words[i] \in Sentinel1Spellings]
           t == IF err = NULL THEN AfterContent(s, ans.text, env.telegraphToken)
                ELSE AfterFail(s)
       IN Upd(c, t) /\ hist' = HistAfter(t)
  /\ UNCHANGED <<rt, sp, dv, store, now, ticks, env, feed, page>>

\* A generateContent request settles.
GeminiResponse(c) == GeminiSettles(c, GeminiAnswers)

\* The article request of extractContentFromUrl settles.
ArticleResponse(c) ==
  /\ cyc[c].pc = "extract"
  /\ \E a \in {"ok", "http_error", "insufficient"} :
       LET s == [cyc[c] EXCEPT !.lastError = IF a = "ok" THEN @ ELSE a]
           t == IF a = "ok" THEN StartRetry(s, "gen_html") ELSE AfterFail(s)
       IN Upd(c, t) /\ hist' = HistAfter(t)
  /\ UNCHANGED <<rt, sp, dv, store, now, ticks, env, feed, page>>

\* The backoff sleep of retryOperation ends: attempt++ and the next attempt.
BackoffDone(c) ==
  /\ cyc[c].pc = "backoff"
  /\ LET s == cyc[c]
         t == NextAttempt([s EXCEPT !.attempt = @ + 1])
     IN Upd(c, t) /\ hist' = HistAfter(t)
  /\ UNCHANGED <<rt, sp, dv, store, now, ticks, env, feed, page>>

\* Variant: a failed page creation ends processRSSItem in its catch block.
TelegraphResponseAborts(c) ==
  /\ cyc[c].pc = "telegraph"
  /\ \E r \in {"ok", "failed"} :
       LET s == [cyc[c] EXCEPT !.telegraph = r]
       IN IF r = "failed" THEN Upd(c, FailProcess(s, "PROCESSING_ERROR"))
          ELSE Upd(c, CallSend(s, processContent(s.content)))
  /\ UNCHANGED <<rt, sp, dv, store, now, ticks, env, hist, feed, page>>

\* createTelegraphPage settles; its error is caught. Delivery starts.
TelegraphResponse(c) ==
  /\ cyc[c].pc = "telegraph"
  /\ \E r \in {"ok", "failed"} :
       Upd(c, CallSend([cyc[c] EXCEPT !.telegraph = r],
                       processContent(cyc[c].content)))
  /\ UNCHANGED <<rt, sp, dv, store, now, ticks, env, hist, feed, page>>

\* Variant: no default when the answer gives no retry_after.
retryAfterNoDefault(ans) == ans.retry_after

\* responseData.parameters?.retry_after || 60 (seconds); an answer with
\* no retry_after carries 0 here, which || treats alike.
retryAfter(ans) ==
  IF ans.retry_after = 0 THEN DefaultRetryAfter ELSE ans.retry_after

\* One sendMessage request settles with answer `ans`: the entry is pushed
\* to the results of the running call; then the rate-limit sleep (429), the
\* recursive plain-text call (other non-OK answers), the catch block
\* (throw) or the end of the iteration.
SendSettles(s0, ans) ==
  LET d == Len(s0.frames)
      status == CASE ans.kind = "ok" -> "success"
                  [] ans.kind = "throw" -> "error"
                  [] OTHER -> "failed"
      s == [s0 EXCEPT
              !.frames[d].results =
                 Append(@, [message_index |-> s0.frames[d].i,
                            status |-> status]),
              !.rejects = IF ans.kind \in {"bad", "rate"} THEN @ + 1
                          ELSE @]
  IN CASE ans.kind = "ok" -> AfterIteration(s)
       [] ans.kind = "throw" -> NextIteration(s)
       [] ans.kind = "bad" -> Recurse(s)
       [] OTHER -> [s EXCEPT !.pc = "ratewait"]

\* A sendMessage request settles. The messaging API gives at most
\* MaxRejects non-OK answers in one cycle.
TelegramSettles(c, answers) ==
  /\ cyc[c].pc = "sending"
  /\ \E ans \in answers :
       /\ ans.kind \in {"bad", "rate"} => cyc[c].rejects < MaxRejects
       /\ Upd(c, SendSettles(cyc[c], ans))
  /\ UNCHANGED <<rt, sp, dv, store, now, ticks, env, hist, feed, page>>

TelegramResponse(c) == TelegramSettles(c, TelegramAnswers)

\* The retry_after sleep ends: the recursive plain-text call.
RateWaitDone(c) ==
  /\ cyc[c].pc = "ratewait"
  /\ Upd(c, Recurse(cyc[c]))
  /\ UNCHANGED <<rt, sp, dv, store, now, ticks, env, hist, feed, page>>

\* The delay between two messages ends.
DelayDone(c) ==
  /\ cyc[c].pc = "delay"
  /\ Upd(c, NextIteration(cyc[c]))
  /\ UNCHANGED <<rt, sp, dv, store, now, ticks, env, hist, feed, page>>

\* RSS_STORAGE.put settles or rejects; markItemAsProcessed swallows the
\* error; handleRSSCheck resolves to the result.
StorePutReturn(c) ==
  /\ cyc[c].pc = "marking"
  /\ \E putOk \in BOOLEAN :
       LET s == [cyc[c] EXCEPT !.putOk = putOk]
           r == markItemAsProcessed(s.itemId, s.content, putOk)
       IN /\ store' = r.store
          /\ hist' = IF putOk THEN [hist EXCEPT !.marked[s.itemId] = now]
                     ELSE hist
          /\ IF r.threw
             THEN Upd(c, End(s, "error", ErrorResponse("put", NULL)))
             ELSE Upd(c, End(s, "done",
                             createResponse([NoResp EXCEPT
                                               !.status = ResultStatus(s.results),
                                               !.item_id = s.itemId], 200)))
  /\ UNCHANGED <<rt, sp, dv, now, ticks, env, feed, page>>

\* The trigger can fire again.
Reset(c) ==
  /\ cyc[c].pc = "done"
  /\ Upd(c, IdleCycle)
  /\ UNCHANGED <<rt, sp, dv, store, now, ticks, env, hist, feed, page>>

\* Time passes.
Tick ==
  /\ ticks < MaxTicks
  /\ now' = now + ITEM_TTL \div 2
  /\ ticks' = ticks + 1
  /\ UNCHANGED <<rt, sp, dv, store, env, cyc, hist, feed, page>>

Step(c) ==
  \/ Start(c) \/ FeedResponse(c) \/ StoreGetReturn(c) \/ GeminiResponse(c)
  \/ ArticleResponse(c) \/ BackoffDone(c) \/ TelegraphResponse(c)
  \/ TelegramResponse(c) \/ RateWaitDone(c) \/ DelayDone(c)
  \/ StorePutReturn(c) \/ Reset(c)

Next == Tick \/ \E c \in Cycles : Step(c)

Spec == Init /\ [][Next]_vars

\* ------------------------------------------- the cycle under fair timers
\* What is bound to happen once it is awaited: a timer fires
\* (setTimeout), a store operation settles, and a request made through
\* fetchWithTimeout settles, by the answer or by the abort after
\* REQUEST_TIMEOUT. The generateContent, createPage and sendMessage
\* requests are plain fetch calls with no abort signal: nothing in the
\* worker makes them settle when the remote side stays silent.
FairCycle(c) ==
  /\ WF_vars(FeedResponse(c))
  /\ WF_vars(ArticleResponse(c))
  /\ WF_vars(StoreGetReturn(c))
  /\ WF_vars(StorePutReturn(c))
  /\ WF_vars(BackoffDone(c))
  /\ WF_vars(RateWaitDone(c))
  /\ WF_vars(DelayDone(c))

SpecTimeout == Init /\ [][Next]_vars /\ \A c \in Cycles : FairCycle(c)

\* ------------------------------------------- retryOperation on its own
\* One call retryOperation(operation, maxRetries) with an operation that
\* may fail in any way at every attempt.
OperationErrors == {"API_ERROR", "NO_CANDIDATES", "NO_CONTENT", "NETWORK"}

InitRetry ==
  /\ InitWorker
  /\ env = [telegraphToken |-> FALSE]
  /\ rt = IdleRetry
  /\ sp = NoSplit

\* The loop test; then `await operation()` or, after the loop,
\* `throw lastError`.
RetryLoop(r) ==
  IF LoopContinues(r.attempt, r.maxRetries)
  THEN [r EXCEPT !.pc = "running", !.calls = @ + 1]
  ELSE [r EXCEPT !.pc = "threw", !.thrown = r.lastError]

\* retryOperation(operation, maxRetries) is called: attempt = 1.
RetryCall ==
  /\ rt.pc = "idle"
  /\ \E m \in 0..MaxRetriesArg :
       rt' = RetryLoop([IdleRetry EXCEPT !.maxRetries = m, !.attempt = 1])
  /\ UNCHANGED <<store, now, ticks, env, cyc, hist, sp, dv, feed, page>>

\* operation() settles: its value is returned, or its error is kept in
\* lastError and the loop goes on, after the backoff sleep if attempts are
\* left.
RetryOperationSettles ==
  /\ rt.pc = "running"
  /\ \/ rt' = [rt EXCEPT !.pc = "returned"]
     \/ \E e \in OperationErrors :
          LET r == [rt EXCEPT !.lastError = e, !.tries = Append(@, e)]
          IN rt' = IF ShouldWait(r.attempt, r.maxRetries)
                   THEN [r EXCEPT !.pc = "waiting"]
                   ELSE RetryLoop([r EXCEPT !.attempt = @ + 1])
  /\ UNCHANGED <<store, now, ticks, env, cyc, hist, sp, dv, feed, page>>

\* The backoff sleep ends: attempt++.
RetryWaitDone ==
  /\ rt.pc = "waiting"
  /\ rt' = RetryLoop([rt EXCEPT !.waits = Append(@, waitTime(rt.attempt)),
                                !.attempt = @ + 1])
  /\ UNCHANGED <<store, now, ticks, env, cyc, hist, sp, dv, feed, page>>

NextRetry == RetryCall \/ RetryOperationSettles \/ RetryWaitDone

SpecRetry == InitRetry /\ [][NextRetry]_vars

\* ------------------------------------- splitMessageSmart, by character
\* A string is the sequence of its characters. "a" stands for any
\* character that is neither whitespace nor sentence punctuation.
Chars == {"a", ".", " ", "\n"}

IsSpace(ch) == ch \in {" ", "\n", "\t"}

IsPunct(ch) == ch \in {".", "!", "?"}

Strings(n) == UNION {[1..k -> Chars] : k \in 0..n}

SetMin(S) == CHOOSE x \in S : \A y \in S : x <= y

SetMax(S) == CHOOSE x \in S : \A y \in S : x >= y

\* String.prototype.trim
trim(str) ==
  LET keep == {i \in 1..Len(str) : ~IsSpace(str[i])}
  IN IF keep = {} THEN <<>> ELSE SubSeq(str, SetMin(keep), SetMax(keep))

\* String.prototype.substring(0, end): end is clamped to 0..length.
substring0(str, end) ==
  SubSeq(str, 1, IF end < 0 THEN 0 ELSE IF end > Len(str) THEN Len(str) ELSE end)

\* text.split('\n\n')
RECURSIVE splitParagraphs(_)
splitParagraphs(str) ==
  LET hits == {j \in 1..(Len(str) - 1) : str[j] = "\n" /\ str[j + 1] = "\n"}
  IN IF hits = {} THEN <<str>>
     ELSE LET j == SetMin(hits)
          IN <<SubSeq(str, 1, j - 1)>> \o
               splitParagraphs(SubSeq(str, j + 2, Len(str)))

\* First position after `from` that holds no sentence punctuation
\* (Len + 1 when the punctuation runs to the end).
PunctRunEnd(str, from) ==
  SetMin({q \in from..(Len(str) + 1) : q = Len(str) + 1 \/ ~IsPunct(str[q])})

SpaceRunEnd(str, from) ==
  SetMin({q \in from..(Len(str) + 1) : q = Len(str) + 1 \/ ~IsSpace(str[q])})

\* paragraph.split(/[.!?]+\s+/): the leftmost match starts at the first
\* punctuation character whose run of punctuation is followed by
\* whitespace, and takes all of that whitespace.
RECURSIVE splitSentences(_)
splitSentences(str) ==
  LET hits == {j \in 1..Len(str) :
                 /\ IsPunct(str[j])
                 /\ PunctRunEnd(str, j) <= Len(str)
                 /\ IsSpace(str[PunctRunEnd(str, j)])}
  IN IF hits = {} THEN <<str>>
     ELSE LET j == SetMin(hits)
              r == SpaceRunEnd(str, PunctRunEnd(str, j))
          IN <<SubSeq(str, 1, j - 1)>> \o
               splitSentences(SubSeq(str, r, Len(str)))

\* sentence.match(/[.!?]$/)
EndsWithPunct(str) == Len(str) > 0 /\ IsPunct(str[Len(str)])

\* The body of the inner loop, for one sentence of a long paragraph;
\* st = [messages, currentMessage].
SplitSentenceStep(st, sentence, maxLength) ==
  IF trim(sentence) = <<>> THEN st
  ELSE
    LET sentenceWithPunctuation ==
          sentence \o (IF EndsWithPunct(sentence) THEN <<>> ELSE <<".">>)
    IN IF Len(st.currentMessage \o sentenceWithPunctuation) > maxLength
       THEN IF trim(st.currentMessage) # <<>>
            THEN [messages |-> Append(st.messages, trim(st.currentMessage)),
                  currentMessage |-> sentenceWithPunctuation]
            ELSE [st EXCEPT !.messages =
                    Append(@, substring0(sentence, maxLength - 3) \o
                                <<".", ".", ".">>)]
       ELSE [st EXCEPT !.currentMessage =
               @ \o (IF @ # <<>> THEN <<" ">> ELSE <<>>) \o
                 sentenceWithPunctuation]

RECURSIVE SplitSentenceLoop(_, _, _, _)
SplitSentenceLoop(st, sentences, k, maxLength) ==
  IF k > Len(sentences) THEN st
  ELSE SplitSentenceLoop(SplitSentenceStep(st, sentences[k], maxLength),
                         sentences, k + 1, maxLength)

\* The body of the outer loop, for one paragraph.
SplitParagraphStep(st, paragraph, maxLength) ==
  IF Len(paragraph) > maxLength
  THEN SplitSentenceLoop(st, splitSentences(paragraph), 1, maxLength)
  ELSE IF Len(st.currentMessage \o <<"\n", "\n">> \o paragraph) > maxLength
       THEN IF trim(st.currentMessage) # <<>>
            THEN [messages |-> Append(st.messages, trim(st.currentMessage)),
                  currentMessage |-> paragraph]
            ELSE [st EXCEPT !.messages = Append(@, paragraph)]
       ELSE [st EXCEPT !.currentMessage =
               @ \o (IF @ # <<>> THEN <<"\n", "\n">> ELSE <<>>) \o paragraph]

RECURSIVE SplitParagraphLoop(_, _, _, _)
SplitParagraphLoop(st, paragraphs, k, maxLength) ==
  IF k > Len(paragraphs) THEN st
  ELSE SplitParagraphLoop(SplitParagraphStep(st, paragraphs[k], maxLength),
                          paragraphs, k + 1, maxLength)

splitMessageSmart(text, maxLength) ==
  IF Len(text) <= maxLength THEN <<text>>
  ELSE
    LET st == SplitParagraphLoop([messages |-> <<>>, currentMessage |-> <<>>],
                                 splitParagraphs(text), 1, maxLength)
        messages == IF trim(st.currentMessage) # <<>>
                    THEN Append(st.messages, trim(st.currentMessage))
                    ELSE st.messages
    IN SelectSeq(messages, LAMBDA msg : Len(trim(msg)) > 0)

InitSplit ==
  /\ InitWorker
  /\ env = [telegraphToken |-> FALSE]
  /\ rt = IdleRetry
  /\ sp \in [pc : {"called"}, text : Strings(MaxTextLen),
            maxLength : 1..MaxSplitLength, chunks : {<<>>}]

\* splitMessageSmart(text, maxLength) returns.
SplitReturns ==
  /\ sp.pc = "called"
  /\ sp' = [sp EXCEPT !.pc = "returned",
                      !.chunks = splitMessageSmart(sp.text, sp.maxLength)]
  /\ UNCHANGED <<store, now, ticks, env, cyc, hist, rt, dv, feed, page>>

NextSplit == SplitReturns

SpecSplit == InitSplit /\ [][NextSplit]_vars

\* ----------------------------- sendToTelegramWithRateLimit on its own
\* One call sendToTelegramWithRateLimit(botToken, chatId, messages, ...)
\* as processRSSItem makes it, with a log of what it does: every call
\* (the original one has depth 1, a recursive one the depth of its
\* caller + 1), every sendMessage request, every answer, each stamped
\* with the time slept so far (ms). Requests are answered in no time, so
\* the stamps are lower bounds.
NoEvent ==
  [ev |-> NULL, depth |-> 0, index |-> 0, plain |-> FALSE, kind |-> NULL,
   retry_after |-> 0, at |-> 0]

IsPlain(msg) == \A k \in 1..Len(msg.words) : ~IsTag(msg.words[k])

\* The log after a step from s to t of the delivery call, at time `at`.
Logged(log, s, t, at) ==
  LET d == Len(t.frames)
      called == IF d > Len(s.frames)
                THEN <<[NoEvent EXCEPT !.ev = "call", !.depth = d, !.at = at]>>
                ELSE <<>>
      sent == IF t.nMsg > s.nMsg
              THEN <<[NoEvent EXCEPT
                        !.ev = "send", !.depth = d, !.index = Top(t).i,
                        !.plain = IsPlain(Top(t).msgs[Top(t).i + 1]),
                        !.at = at]>>
              ELSE <<>>
  IN log \o called \o sent

InitDeliver ==
  /\ InitWorker
  /\ env = [telegraphToken |-> FALSE]
  /\ rt = IdleRetry
  /\ sp = NoSplit

\* processRSSItem calls sendToTelegramWithRateLimit with the messages of
\* processContent(content).
DeliverCall ==
  /\ dv.s.pc = "idle"
  /\ \E n \in 1..MaxDeliverChunks :
       LET s == [IdleCycle EXCEPT !.content = Article(n)]
           t == CallSend(s, processContent(s.content))
       IN dv' = [s |-> t, log |-> Logged(<<>>, s, t, 0), clock |-> 0]
  /\ UNCHANGED <<store, now, ticks, env, cyc, hist, rt, sp, feed, page>>

\* A sendMessage request settles. The messaging API gives at most
\* MaxDeliverRejects non-OK answers during the call.
DeliverResponse ==
  /\ dv.s.pc = "sending"
  /\ \E ans \in TelegramAnswers :
       LET t == SendSettles(dv.s, ans)
           answered == Append(dv.log,
                         [NoEvent EXCEPT
                            !.ev = "answer", !.depth = Len(dv.s.frames),
                            !.index = Top(dv.s).i, !.kind = ans.kind,
                            !.retry_after = ans.retry_after,
                            !.at = dv.clock])
       IN /\ ans.kind \in {"bad", "rate"} => dv.s.rejects < MaxDeliverRejects
          /\ dv' = [dv EXCEPT !.s = t,
                              !.log = Logged(answered, dv.s, t, dv.clock)]
  /\ UNCHANGED <<store, now, ticks, env, cyc, hist, rt, sp, feed, page>>

\* setTimeout(resolve, retryAfter * 1000) fires: the recursive call.
DeliverRateWaitDone ==
  /\ dv.s.pc = "ratewait"
  /\ LET t == Recurse(dv.s)
         at == dv.clock + retryAfter(dv.log[Len(dv.log)]) * 1000
     IN dv' = [s |-> t, log |-> Logged(dv.log, dv.s, t, at), clock |-> at]
  /\ UNCHANGED <<store, now, ticks, env, cyc, hist, rt, sp, feed, page>>

\* setTimeout(resolve, delayBetweenRequests) fires: the next iteration.
DeliverDelayDone ==
  /\ dv.s.pc = "delay"
  /\ LET t == NextIteration(dv.s)
         at == dv.clock + delayBetweenRequests
     IN dv' = [s |-> t, log |-> Logged(dv.log, dv.s, t, at), clock |-> at]
  /\ UNCHANGED <<store, now, ticks, env, cyc, hist, rt, sp, feed, page>>

NextDeliver ==
  DeliverCall \/ DeliverResponse \/ DeliverRateWaitDone \/ DeliverDelayDone

SpecDeliver == InitDeliver /\ [][NextDeliver]_vars

\* ------------------------------------------------- parseRSSItems alone
\* The item and entry blocks of a feed document, each with the title and
\* the date parseRSSItem extracts from it.
ParseEntries ==
  { [title |-> t, link |-> "http://x/1", guid |-> "g1", pubDate |-> d] :
      t \in {"Test", "", NULL}, d \in PubDates }

RECURSIVE SeqsUpTo(_, _)
SeqsUpTo(S, n) ==
  IF n = 0 THEN {<<>>}
  ELSE LET shorter == SeqsUpTo(S, n - 1)
       IN shorter \cup {Append(q, x) : q \in shorter, x \in S}

InitParse ==
  /\ InitWorker
  /\ env = [telegraphToken |-> FALSE]
  /\ rt = IdleRetry
  /\ sp = NoSplit

\* getLatestRSSItem calls parseRSSItems(xmlText).
ParseCall ==
  /\ feed.pc = "idle"
  /\ \E es \in SeqsUpTo(ParseEntries, MaxFeedLen) :
       feed' = [NoFeed EXCEPT !.pc = "served", !.entries = es]
  /\ UNCHANGED <<store, now, ticks, env, cyc, hist, rt, sp, dv, page>>

\* parseRSSItems(xmlText) returns.
ParseReturns ==
  /\ feed.pc = "served"
  /\ feed' = [feed EXCEPT !.pc = "parsed",
                          !.items = parseRSSItems(feed.entries)]
  /\ UNCHANGED <<store, now, ticks, env, cyc, hist, rt, sp, dv, page>>

NextParse == ParseCall \/ ParseReturns

SpecParse == InitParse /\ [][NextParse]_vars

\* ------------------------------------------- cycles polling one feed
\* The feed document grows as the site publishes: each polled item has its
\* own publish date, and a new entry is put at the head of the document.
PolledDate(it) ==
  CASE it.title = "Test" -> At(2)
    [] it.title = "B" -> At(3)
    [] it.title = "U+062E" -> At(4)
    [] it.guid = "g3" -> At(1)
    [] OTHER -> At(5)

PolledEntries ==
  { [title |-> it.title, link |-> it.link, guid |-> it.guid,
     pubDate |-> PolledDate(it)] : it \in PolledItems }

InitFeed ==
  /\ InitWorker
  /\ env = [telegraphToken |-> FALSE]
  /\ rt = IdleRetry
  /\ sp = NoSplit

\* A cycle reads the document once, when its feed request settles, so an
\* entry published during a cycle is taken as published after it.
Publish ==
  /\ \A c \in Cycles : cyc[c].pc = "idle"
  /\ Len(feed.entries) < MaxPolled
  /\ \E e \in PolledEntries :
       /\ \A i \in 1..Len(feed.entries) : feed.entries[i] # e
       /\ feed' = [feed EXCEPT !.entries = <<e>> \o @]
  /\ UNCHANGED <<store, now, ticks, env, cyc, hist, rt, sp, dv, page>>

\* The feed request settles with the document as it stands:
\* getLatestRSSItem parses it, or throws an RSSError.
PolledFeedResponse(c) ==
  /\ cyc[c].pc = "fetching"
  /\ \/ \E code \in {"HTTP_ERROR", "FETCH_ERROR"} :
          Upd(c, End(cyc[c], "error", ErrorResponse("rss", code)))
     \/ Upd(c, AfterFeed(cyc[c], parseRSSItems(feed.entries)))
  /\ UNCHANGED <<rt, sp, dv, store, now, ticks, env, hist, feed, page>>

StepFeed(c) ==
  \/ Start(c) \/ PolledFeedResponse(c) \/ StoreGetReturn(c)
  \/ GeminiResponse(c) \/ ArticleResponse(c) \/ BackoffDone(c)
  \/ TelegramResponse(c) \/ RateWaitDone(c) \/ DelayDone(c)
  \/ StorePutReturn(c) \/ Reset(c)

NextFeed == Publish \/ \E c \in Cycles : StepFeed(c)

SpecFeed == InitFeed /\ [][NextFeed]_vars

\* ------------------------------------------------- overlapping cycles
\* Nothing in the worker keeps a manual and a scheduled cycle apart: each
\* trigger starts handleRSSCheck whatever the other cycle is doing.
InitOverlap ==
  /\ InitWorker
  /\ env = [telegraphToken |-> FALSE]
  /\ rt = IdleRetry
  /\ sp = NoSplit

\* The answers the backends give while cycles overlap: a clean one-chunk
\* text or an HTTP error from the generation backend; ok, a 400 or a
\* network failure from the messaging API.
OverlapGeminiAnswers ==
  { [kind |-> "text", text |-> Article(1)],
    [kind |-> "http_error", text |-> NoText] }

OverlapTelegramAnswers == {a \in TelegramAnswers : a.kind # "rate"}

OverlapGeminiResponse(c) == GeminiSettles(c, OverlapGeminiAnswers)

OverlapTelegramResponse(c) == TelegramSettles(c, OverlapTelegramAnswers)

StartOverlapping(c) ==
  /\ cyc[c].pc = "idle"
  /\ Upd(c, [IdleCycle EXCEPT !.pc = "fetching"])
  /\ UNCHANGED <<rt, sp, dv, store, now, ticks, env, hist, feed, page>>

StepOverlap(c) ==
  \/ StartOverlapping(c) \/ FeedResponse(c) \/ StoreGetReturn(c)
  \/ OverlapGeminiResponse(c) \/ ArticleResponse(c) \/ BackoffDone(c)
  \/ OverlapTelegramResponse(c) \/ StorePutReturn(c) \/ Reset(c)

NextOverlap == \E c \in Cycles : StepOverlap(c)

SpecOverlap == InitOverlap /\ [][NextOverlap]_vars

\* --------------------------------------------------- extractMainContent
\* An article page is a sequence of elements side by side, each of a kind
\* and with so many characters of text: <article> and <main> (content
\* selectors), <p>, <div class="story"> (news selector), <span> (text no
\* selector looks for) and <nav> (removed at the start).
ElementKinds == {"article", "main", "p", "story", "span", "nav"}

Elements == [kind : ElementKinds, chars : {30, 150, 300, 600}]

\* The characters of an element's tags, e.g. <article></article>.
TagChars(kind) ==
  CASE kind = "article" -> 19
    [] kind = "main" -> 13
    [] kind = "p" -> 7
    [] kind = "story" -> 25
    [] kind = "span" -> 13
    [] OTHER -> 11

\* element.length, tags included.
RawLength(e) == e.chars + TagChars(e.kind)

RECURSIVE SumRaw(_)
SumRaw(es) == IF es = <<>> THEN 0 ELSE RawLength(Head(es)) + SumRaw(Tail(es))

RECURSIVE SumChars(_)
SumChars(es) == IF es = <<>> THEN 0 ELSE Head(es).chars + SumChars(Tail(es))

OfKind(es, kind) ==
  LET Is(e) == e.kind = kind IN SelectSeq(es, Is)

\* The first replace chain: script, style, nav, header, footer, aside and
\* the boilerplate containers go.
RemoveUnwanted(html) ==
  LET Kept(e) == e.kind # "nav" IN SelectSeq(html, Kept)

\* matches.reduce(...): the first of the longest matches.
RECURSIVE Longest(_, _)
Longest(matches, longest) ==
  IF matches = <<>> THEN longest
  ELSE Longest(Tail(matches),
               IF longest = <<>> \/ RawLength(Head(matches)) > RawLength(longest[1])
               THEN <<Head(matches)>> ELSE longest)

\* The loop over contentSelectors: each selector that matches replaces
\* extractedContent by its longest match; the loop ends at one over 500.
RECURSIVE TrySelectors(_, _, _)
TrySelectors(cleanHtml, selectors, extracted) ==
  IF selectors = <<>> THEN extracted
  ELSE LET matches == OfKind(cleanHtml, Head(selectors))
           longest == Longest(matches, <<>>)
       IN IF matches = <<>>
          THEN TrySelectors(cleanHtml, Tail(selectors), extracted)
          ELSE IF SumRaw(longest) > 500 THEN longest
          ELSE TrySelectors(cleanHtml, Tail(selectors), longest)

\* paragraphs.join('\n').length
JoinedLength(paragraphs) == SumRaw(paragraphs) + (Len(paragraphs) - 1)

\* cleanTextContent(...).length: the tags become blanks, runs of white
\* space one blank, and the ends are trimmed.
cleanTextContent(es) ==
  IF es = <<>> THEN 0 ELSE SumChars(es) + (Len(es) - 1)

\* Variant: only an empty text is insufficient.
InsufficientOnlyEmpty(length) == length = 0

\* if (!cleanedContent || cleanedContent.length < 100) throw
Insufficient(length) == length < 100

\* extractMainContent(html): whether it throws, else the length of the
\* text it returns.
extractMainContent(html) ==
  LET cleanHtml == RemoveUnwanted(html)
      s1 == TrySelectors(cleanHtml, <<"article", "main">>, <<>>)
      paragraphs == OfKind(cleanHtml, "p")
      use2 == SumRaw(s1) < 200 /\ paragraphs # <<>>
      s2 == IF use2 THEN paragraphs ELSE s1
      raw2 == IF use2 THEN JoinedLength(paragraphs) ELSE SumRaw(s1)
      news == OfKind(cleanHtml, "story")
      use3 == raw2 < 200 /\ news # <<>>
      s3 == IF use3 THEN <<news[1]>> ELSE s2
      raw3 == IF use3 THEN RawLength(news[1]) ELSE raw2
      s4 == IF raw3 < 100 THEN cleanHtml ELSE s3
      cleanedContent == cleanTextContent(s4)
  IN [threw |-> Insufficient(cleanedContent),
      length |-> IF Insufficient(cleanedContent) THEN 0 ELSE cleanedContent]

InitExtract ==
  /\ InitWorker
  /\ env = [telegraphToken |-> FALSE]
  /\ rt = IdleRetry
  /\ sp = NoSplit

\* extractContentFromUrl calls extractMainContent(html).
ExtractCall ==
  /\ page.pc = "idle"
  /\ \E html \in SeqsUpTo(Elements, MaxElements) :
       page' = [NoPage EXCEPT !.pc = "called", !.html = html]
  /\ UNCHANGED <<store, now, ticks, env, cyc, hist, rt, sp, dv, feed>>

\* extractMainContent returns or throws.
ExtractReturns ==
  /\ page.pc = "called"
  /\ LET r == extractMainContent(page.html)
     IN page' = [page EXCEPT !.pc = "returned", !.threw = r.threw,
                             !.length = r.length]
  /\ UNCHANGED <<store, now, ticks, env, cyc, hist, rt, sp, dv, feed>>

NextExtract == ExtractCall \/ ExtractReturns

SpecExtract == InitExtract /\ [][NextExtract]_vars

\* ------------------------------------------- processContent by character
\* A generated text as processContent sees it: characters, with the code
\* fences (three backticks followed by html, and three backticks) each held
\* as one symbol, FENCE_HTML and FENCE.
FormatChars == {"a", ".", " ", "\n", "FENCE_HTML", "FENCE"}

FormatTexts(n) == UNION {[1..k -> FormatChars] : k \in 0..n}

\* if (startsWith(FENCE_HTML)) replace(/^FENCE_HTML\n?/, '')
StripOpeningFence(str) ==
  IF str # <<>> /\ str[1] = "FENCE_HTML"
  THEN IF Len(str) >= 2 /\ str[2] = "\n" THEN SubSeq(str, 3, Len(str))
       ELSE SubSeq(str, 2, Len(str))
  ELSE str

\* if (endsWith(FENCE)) replace(/\n?FENCE$/, '')
StripClosingFence(str) ==
  IF str # <<>> /\ str[Len(str)] = "FENCE"
  THEN IF Len(str) >= 2 /\ str[Len(str) - 1] = "\n"
       THEN SubSeq(str, 1, Len(str) - 2)
       ELSE SubSeq(str, 1, Len(str) - 1)
  ELSE str

\* processContent(content).messages, the split at maxLength standing for
\* the default SAFE_MESSAGE_LENGTH.
processContentMessages(content, maxLength) ==
  LET processedOutput ==
        trim(StripClosingFence(StripOpeningFence(trim(content))))
  IN splitMessageSmart(processedOutput, maxLength)

InitFormat ==
  /\ InitWorker
  /\ env = [telegraphToken |-> FALSE]
  /\ rt = IdleRetry
  /\ sp = NoSplit

\* processRSSItem calls processContent(content).
FormatCall ==
  /\ sp.pc = "idle"
  /\ \E text \in FormatTexts(MaxFormatLen), maxLength \in 1..MaxSplitLength :
       sp' = [NoSplit EXCEPT !.pc = "formatting", !.text = text,
                             !.maxLength = maxLength]
  /\ UNCHANGED <<store, now, ticks, env, cyc, hist, rt, dv, feed, page>>

\* processContent returns.
FormatReturns ==
  /\ sp.pc = "formatting"
  /\ sp' = [sp EXCEPT !.pc = "formatted",
                      !.chunks = processContentMessages(sp.text, sp.maxLength)]
  /\ UNCHANGED <<store, now, ticks, env, cyc, hist, rt, dv, feed, page>>

NextFormat == FormatCall \/ FormatReturns

SpecFormat == InitFormat /\ [][NextFormat]_vars

\* ------------------------------------------- cycles reading a feed text
\* A feed text is blank, or a run of <item> and <entry> blocks (none at
\* all for a text that holds no block). A block holds its title, guid and
\* pubDate as extractXMLContent returns them, and its <link> element as
\* written.
MaxBlocks == 2

NoLink == [kind |-> "absent", body |-> "", href |-> NULL]

\* <link>u</link>
TextLink(u) == [kind |-> "paired", body |-> u, href |-> NULL]

\* <link href="u"></link>
EmptyLink(u) == [kind |-> "paired", body |-> "", href |-> u]

\* <link href="u"/>
SelfClosingLink(u) == [kind |-> "selfclosing", body |-> "", href |-> u]

Blocks ==
  { [tag |-> "item", title |-> "Test", link |-> TextLink("http://x/1"),
     guid |-> "g1", pubDate |-> At(2)],
    [tag |-> "item", title |-> NULL, link |-> TextLink("http://x/1"),
     guid |-> "g1", pubDate |-> At(2)],
    [tag |-> "item", title |-> "Test", link |-> TextLink("not a url"),
     guid |-> "g1", pubDate |-> At(2)],
    [tag |-> "item", title |-> "Test", link |-> TextLink(""),
     guid |-> "g1", pubDate |-> At(2)],
    [tag |-> "entry", title |-> "B", link |-> SelfClosingLink("http://x/2"),
     guid |-> NULL, pubDate |-> At(3)],
    [tag |-> "entry", title |-> "B", link |-> EmptyLink("http://x/2"),
     guid |-> NULL, pubDate |-> At(3)] }

IsItemBlock(b) == b.tag = "item"

IsEntryBlock(b) == b.tag = "entry"

\* Variant: the blocks of both kinds are taken together.
itemMatchesBothKinds(blocks) == blocks

\* xmlText.match(/<item[\s\S]*?<\/item>/gi) ||
\* xmlText.match(/<entry[\s\S]*?<\/entry>/gi): match gives null when
\* nothing matches, so the <entry> blocks are looked for only then.
itemMatches(blocks) ==
  LET rss == SelectSeq(blocks, IsItemBlock)
  IN IF rss # <<>> THEN rss ELSE SelectSeq(blocks, IsEntryBlock)

\* extractXMLContent(xml, tag). The pattern <tag[^>]*>(.*?)</tag> needs a
\* closing tag: a self-closing element does not match and gives null.
\* For 'link' with a blank body the href attribute is taken.
extractXMLContent(xml, tag) ==
  CASE tag = "title" -> xml.title
    [] tag = "guid" -> xml.guid
    [] tag = "pubDate" -> xml.pubDate
    [] OTHER ->
         IF xml.link.kind = "paired"
         THEN IF xml.link.body = "" /\ xml.link.href # NULL
              THEN xml.link.href
              ELSE xml.link.body
         ELSE NULL

parseRSSItem(itemXml) ==
  [title |-> extractXMLContent(itemXml, "title"),
   link |-> extractXMLContent(itemXml, "link"),
   guid |-> extractXMLContent(itemXml, "guid"),
   pubDate |-> extractXMLContent(itemXml, "pubDate")]

\* parseRSSItems(xmlText), from the blocks of the text.
parseRSSItemsOfText(blocks) ==
  LET m == itemMatches(blocks)
  IN parseRSSItems([i \in 1..Len(m) |-> parseRSSItem(m[i])])

InitBlocks ==
  /\ InitWorker
  /\ env = [telegraphToken |-> FALSE]
  /\ rt = IdleRetry
  /\ sp = NoSplit

\* The feed request settles: getLatestRSSItem throws HTTP_ERROR or
\* FETCH_ERROR, throws EMPTY_FEED on a blank text, or parses the text;
\* handleRSSCheck goes on with what it returns.
TextFeedResponse(c) ==
  /\ cyc[c].pc = "fetching"
  /\ \/ \E code \in {"HTTP_ERROR", "FETCH_ERROR"} :
          /\ Upd(c, End(cyc[c], "error", ErrorResponse("rss", code)))
          /\ feed' = [NoFeed EXCEPT !.pc = "failed"]
     \/ /\ Upd(c, End(cyc[c], "error", ErrorResponse("rss", "EMPTY_FEED")))
        /\ feed' = [NoFeed EXCEPT !.pc = "blank"]
     \/ \E blocks \in SeqsUpTo(Blocks, MaxBlocks) :
          LET items == parseRSSItemsOfText(blocks)
          IN /\ Upd(c, AfterFeed(cyc[c], items))
             /\ feed' = [pc |-> "text", entries |-> blocks, items |-> items]
  /\ UNCHANGED <<rt, sp, dv, store, now, ticks, env, hist, page>>

StepBlocks(c) ==
  \/ Start(c) \/ TextFeedResponse(c) \/ StoreGetReturn(c)
  \/ OverlapGeminiResponse(c) \/ ArticleResponse(c) \/ BackoffDone(c)
  \/ OverlapTelegramResponse(c) \/ StorePutReturn(c) \/ Reset(c)

NextBlocks == \E c \in Cycles : StepBlocks(c)

SpecBlocks == InitBlocks /\ [][NextBlocks]_vars

\* ------------------------------------------------------------------ claims
NoRequests(s) ==
  /\ s.nGemUrl = 0 /\ s.nGemHtml = 0 /\ s.nArt = 0
  /\ s.nTgraph = 0 /\ s.nMsg = 0 /\ s.nPut = 0

HasWord(ws, W) == \E i \in 1..Len(ws) : ws[i] \in W

SentinelSpellings == Sentinel1Spellings \cup {"###error2###", "###Error2###"}

DeliveryFailed(s) ==
  /\ s.delivered
  /\ \E i \in 1..Len(s.results) : s.results[i].status \in {"failed", "error"}

\* C1: a cycle whose delivery report holds a 'failed' or 'error' entry
\* writes no record processed_item_<itemId>.
C1_MarkOnlyAfterDelivery ==
  \A c \in Cycles : DeliveryFailed(cyc[c]) => ~cyc[c].putOk

\* C2: when both strategies threw, the cycle issues no store write and the
\* store stays as it was; a later cycle that reads no record for an item
\* both strategies failed on issues the URL-context request for it again.
C2_FailedItemRetried ==
  [][\A c \in Cycles :
       /\ (cyc'[c].urlThrew /\ cyc'[c].fallbackThrew) =>
            (cyc'[c].nPut = 0 /\ cyc'[c].outcome = "error" /\
             (cyc[c].pc # "done" => store' = store))
       /\ (/\ cyc[c].pc = "reading"
           /\ cyc'[c].pc # "reading"
           /\ cyc[c].item \in hist.bothFailed
           /\ ~StoreGet(Key(cyc[c].itemId)).present) =>
            (/\ cyc'[c].pc = "gen"
             /\ cyc'[c].op = "gen_url"
             /\ cyc'[c].nGemUrl = 1)]_vars

C2_Witness ==
  \E c \in Cycles :
    /\ cyc[c].pc = "gen"
    /\ cyc[c].op = "gen_url"
    /\ cyc[c].item \in hist.bothFailed
    /\ ~cyc[c].urlThrew

\* C3 as stated: whenever the store holds a live record for the cycle's
\* item when the dedup read settles, the cycle ends in DUPLICATE having
\* made no request and no write.
C3_Original ==
  [][\A c \in Cycles :
       (/\ cyc[c].pc = "reading"
        /\ cyc'[c].pc # "reading"
        /\ StoreGet(Key(cyc[c].itemId)).present) =>
         (/\ cyc'[c].pc = "done"
          /\ cyc'[c].outcome = "duplicate"
          /\ NoRequests(cyc'[c]))]_vars

\* C3 amended: when the dedup read succeeds and returns a record, the
\* cycle ends in DUPLICATE with no generation, article, Telegraph or
\* messaging request and no store write; DUPLICATE is terminal (the only
\* step left is the next trigger) and the store is not written.
C3_DuplicateIsTerminal ==
  [][\A c \in Cycles :
       /\ (/\ cyc[c].pc = "reading"
           /\ cyc'[c].pc # "reading"
           /\ ~cyc'[c].readFailed
           /\ StoreGet(Key(cyc[c].itemId)).present) =>
            (/\ cyc'[c].pc = "done"
             /\ cyc'[c].outcome = "duplicate"
             /\ cyc'[c].resp.http = 200
             /\ NoRequests(cyc'[c])
             /\ store' = store)
       /\ (cyc[c].outcome = "duplicate" /\ cyc'[c] # cyc[c]) =>
            (cyc'[c] = IdleCycle /\ store' = store)]_vars

C3_Witness ==
  \E c \in Cycles :
    /\ cyc[c].outcome = "duplicate"
    /\ ~cyc[c].readFailed
    /\ store[Key(cyc[c].itemId)].present

\* C4: once a put of markItemAsProcessed(id, ..) has succeeded, every
\* isItemNew(id) whose read succeeds before ITEM_TTL seconds have passed
\* since the put resolves to isNew = false.
C4_RoundTrip ==
  [][\A c \in Cycles :
       (/\ cyc[c].pc = "reading"
        /\ cyc'[c].pc # "reading"
        /\ ~cyc'[c].readFailed
        /\ hist.marked[cyc[c].itemId] >= 0
        /\ now < hist.marked[cyc[c].itemId] + ITEM_TTL) =>
         (~cyc'[c].isNew /\ cyc'[c].outcome = "duplicate")]_vars

C4_Witness ==
  \E c \in Cycles :
    /\ cyc[c].outcome = "duplicate"
    /\ hist.marked[cyc[c].itemId] >= 0
    /\ now > hist.marked[cyc[c].itemId]
    /\ now < hist.marked[cyc[c].itemId] + ITEM_TTL

\* C5 as stated: when the store read fails, isItemNew resolves to
\* isNew = true and the cycle goes on to generation.
C5_Original ==
  [][\A c \in Cycles :
       (cyc[c].pc = "reading" /\ cyc'[c].pc # "reading" /\
        cyc'[c].readFailed) =>
         (cyc'[c].isNew /\ cyc'[c].pc = "gen" /\ cyc'[c].nGemUrl = 1)]_vars

\* C5 amended: when the store read fails, isItemNew resolves to
\* isNew = true (it does not throw, whether a record is held or not) and
\* the cycle goes on to processRSSItem: to the URL-context request when
\* the item passes validateRSSItem, to the error response with no request
\* made when it does not.
C5_FailOpen ==
  [][\A c \in Cycles :
       (cyc[c].pc = "reading" /\ cyc'[c].pc # "reading" /\
        cyc'[c].readFailed) =>
         /\ cyc'[c].isNew
         /\ cyc'[c].outcome # "duplicate"
         /\ IF validateRSSItem(cyc[c].item) = NULL
            THEN cyc'[c].pc = "gen" /\ cyc'[c].op = "gen_url" /\
                 cyc'[c].nGemUrl = 1
            ELSE cyc'[c].outcome = "error" /\ NoRequests(cyc'[c])]_vars

C5_Witness ==
  \E c \in Cycles :
    /\ cyc[c].readFailed
    /\ cyc[c].pc = "gen"
    /\ store[Key(cyc[c].itemId)].present
    /\ now < store[Key(cyc[c].itemId)].expires

\* C6: when the put of markItemAsProcessed fails, nothing is thrown, the
\* store is unchanged and the cycle answers 200 with the success result of
\* the item it processed.
C6_PutFailureSwallowed ==
  [][\A c \in Cycles :
       (cyc[c].pc = "marking" /\ cyc'[c].pc # "marking" /\ ~cyc'[c].putOk) =>
         (/\ store' = store
          /\ cyc'[c].pc = "done"
          /\ cyc'[c].outcome = "done"
          /\ cyc'[c].resp.http = 200
          /\ cyc'[c].resp.status = "success"
          /\ cyc'[c].resp.item_id = cyc[c].itemId)]_vars

C6_Witness ==
  \E c \in Cycles :
    /\ cyc[c].pc = "done"
    /\ cyc[c].nPut = 1
    /\ ~cyc[c].putOk
    /\ cyc[c].resp.status = "success"

\* C7 as stated: a URL-context answer holding ###error1### (any letter
\* case) makes the rewrite fall through to the extraction strategy, and no
\* text holding the sentinel is sent or stored.
C7_Original ==
  [][\A c \in Cycles :
       (cyc[c].pc = "gen" /\ cyc[c].op = "gen_url" /\ cyc'[c] # cyc[c] /\
        cyc'[c].gotSentinel1) =>
         (cyc'[c].pc = "extract" /\ cyc'[c].urlThrew)]_vars

NoSentinelPublished ==
  /\ \A c \in Cycles :
       /\ ~HasWord(cyc[c].content.words, SentinelSpellings)
       /\ \A f \in 1..Len(cyc[c].frames) :
            \A m \in 1..Len(cyc[c].frames[f].msgs) :
              ~HasWord(cyc[c].frames[f].msgs[m].words, SentinelSpellings)
  /\ \A k \in Keys :
       ~HasWord(store[k].value.gemini_output, SentinelSpellings)

\* C7 amended: a URL-context answer holding ###error1### (any letter case)
\* is a failed attempt of retryOperation: it is retried after the backoff
\* when attempts are left, and when it was the last attempt the rewrite
\* falls through to the extraction strategy; it never becomes the content,
\* and no text holding a sentinel is sent to the messaging API or stored.
C7_SentinelNeverPublished ==
  /\ []NoSentinelPublished
  /\ [][\A c \in Cycles :
          (cyc[c].pc = "gen" /\ cyc[c].op = "gen_url" /\ cyc'[c] # cyc[c] /\
           cyc'[c].gotSentinel1) =>
            IF cyc[c].attempt < MAX_RETRIES
            THEN cyc'[c].pc = "backoff" /\ cyc'[c].op = "gen_url"
            ELSE cyc'[c].pc = "extract" /\ cyc'[c].urlThrew /\
                 cyc'[c].nArt = 1]_vars

C7_Witness ==
  \E c \in Cycles :
    cyc[c].pc = "extract" /\ cyc[c].gotSentinel1 /\ cyc[c].attempt = 1

\* C8: an article fetch or a generation request without the URL-context
\* tool is made only in a cycle in which the URL-context strategy threw;
\* a cycle whose URL-context strategy returned the text makes neither.
C8_FallbackOnlyAfterThrow ==
  \A c \in Cycles :
    /\ (cyc[c].nArt > 0 \/ cyc[c].nGemHtml > 0 \/
        cyc[c].pc = "extract" \/ cyc[c].op \in {"extract", "gen_html"}) =>
         cyc[c].urlThrew
    /\ (cyc[c].content # NoText /\ ~cyc[c].urlThrew) =>
         (cyc[c].nArt = 0 /\ cyc[c].nGemHtml = 0 /\ cyc[c].nGemUrl >= 1)

C8_Witness ==
  \E c \in Cycles :
    /\ cyc[c].nArt > 0 /\ cyc[c].nGemHtml > 0 /\ cyc[c].urlThrew
    /\ cyc[c].content # NoText
    /\ cyc[c].pc = "done"

\* C9: retryOperation invokes the operation at most maxRetries times; it
\* goes on after every kind of failure and throws only when maxRetries
\* attempts have failed, and then the error of the last attempt; between
\* the k-th failed attempt and the next one it sleeps
\* RETRY_DELAY_BASE * 2^(k-1) ms (RETRY_DELAY_BASE, then twice the sleep
\* before).
C9_RetryBackoff ==
  /\ rt.calls <= rt.maxRetries
  /\ Len(rt.tries) <= rt.calls
  /\ rt.pc = "running" => Len(rt.tries) = rt.calls - 1
  /\ rt.pc \in {"running", "returned"} => Len(rt.waits) = rt.calls - 1
  /\ rt.pc = "threw" =>
       /\ rt.calls = rt.maxRetries
       /\ Len(rt.tries) = rt.maxRetries
       /\ rt.maxRetries >= 1 =>
            (rt.thrown = rt.tries[Len(rt.tries)] /\
             Len(rt.waits) = rt.maxRetries - 1)
  /\ \A k \in 1..Len(rt.waits) :
       rt.waits[k] = IF k = 1 THEN RETRY_DELAY_BASE ELSE 2 * rt.waits[k - 1]

C9_Witness ==
  /\ rt.pc = "threw"
  /\ rt.maxRetries = MAX_RETRIES
  /\ rt.tries = <<"API_ERROR", "NO_CONTENT">>
  /\ rt.waits = <<RETRY_DELAY_BASE>>

\* C10: no chunk returned by splitMessageSmart(text, maxLength) is longer
\* than maxLength.
C10_ChunksWithinLimit ==
  sp.pc = "returned" =>
    \A i \in 1..Len(sp.chunks) : Len(sp.chunks[i]) <= sp.maxLength

\* The characters of a string that are not whitespace, in order.
NonSpace(str) == SelectSeq(str, LAMBDA ch : ~IsSpace(ch))

RECURSIVE ConcatChunks(_)
ConcatChunks(chunks) ==
  IF chunks = <<>> THEN <<>> ELSE Head(chunks) \o ConcatChunks(Tail(chunks))

\* C11: the chunks returned by splitMessageSmart, concatenated in order,
\* hold the characters of the input text, whitespace aside: nothing is
\* dropped, altered, added or reordered.
C11_ContentPreserved ==
  sp.pc = "returned" => NonSpace(ConcatChunks(sp.chunks)) = NonSpace(sp.text)

\* C12: a text no longer than maxLength comes back as the one-element list
\* holding it, and splitting any returned chunk again returns that chunk
\* unchanged.
C12_SplitIdempotent ==
  sp.pc = "returned" =>
    /\ Len(sp.text) <= sp.maxLength => sp.chunks = <<sp.text>>
    /\ \A i \in 1..Len(sp.chunks) :
         splitMessageSmart(sp.chunks[i], sp.maxLength) = <<sp.chunks[i]>>

\* The entries of a report are those of chunks 0, 1, ... in this order.
InOrder(results) ==
  \A k \in 1..Len(results) : results[k].message_index = k - 1

\* C13: the report a delivery call returns has exactly one entry per
\* chunk, in the chunks' order, message_index being the chunk's position,
\* whatever the answers were and whether or not the plain-text call ran;
\* while a call runs its report holds one entry per chunk attempted.
C13_OneEntryPerChunk ==
  /\ \A f \in 1..Len(dv.s.frames) :
       LET fr == dv.s.frames[f]
       IN /\ InOrder(fr.results)
          /\ Len(fr.results) \in {fr.i, fr.i + 1}
          /\ Len(fr.results) <= Len(fr.msgs)
          /\ (f = Len(dv.s.frames) /\ dv.s.pc = "sending") =>
               Len(fr.results) = fr.i
  /\ dv.s.delivered =>
       /\ Len(dv.s.results) = dv.s.content.nchunks
       /\ InOrder(dv.s.results)

C13_Witness ==
  /\ dv.s.delivered
  /\ dv.s.content.nchunks = 3
  /\ dv.s.results[2].status = "failed"
  /\ dv.s.results[3].status = "error"
  /\ \E k \in 1..Len(dv.log) :
       /\ dv.log[k].ev = "answer" /\ dv.log[k].kind = "rate"
       /\ dv.log[k].retry_after = 5
       /\ dv.log[k].depth = 1 /\ dv.log[k].index = 1
  /\ \E k \in 1..Len(dv.log) : dv.log[k].ev = "call" /\ dv.log[k].depth = 2

Events(ev) == {k \in 1..Len(dv.log) : dv.log[k].ev = ev}

FailedAnswers == {k \in Events("answer") : dv.log[k].kind # "ok"}

\* Position j of the log is a request of the call that position k belongs
\* to: same depth, and no call of that depth was made in between.
SameCall(k, j) ==
  /\ k < j
  /\ dv.log[j].depth = dv.log[k].depth
  /\ \A m \in k..j :
       ~(dv.log[m].ev = "call" /\ dv.log[m].depth = dv.log[k].depth)

\* C14: the delivery call does not end in an error for a failed message:
\* a non-OK answer or a thrown error on chunk i is an entry of the report
\* ('failed' or 'error', message_index i), and the loop of that call goes
\* on to request chunk i+1 (at once after a thrown error).
C14_FailureRecordedLoopGoesOn ==
  /\ dv.s.outcome = NULL
  /\ \A k \in FailedAnswers :
       LET e == dv.log[k]
           n == dv.s.content.nchunks
           report == IF dv.s.delivered THEN dv.s.results
                     ELSE dv.s.frames[1].results
       IN /\ e.depth = 1 =>
               /\ Len(report) > e.index
               /\ report[e.index + 1].message_index = e.index
               /\ report[e.index + 1].status =
                    IF e.kind = "throw" THEN "error" ELSE "failed"
          /\ (e.kind = "throw" /\ e.index + 1 < n) =>
               /\ k < Len(dv.log)
               /\ dv.log[k + 1].ev = "send"
               /\ dv.log[k + 1].depth = e.depth
               /\ dv.log[k + 1].index = e.index + 1
          /\ (dv.s.delivered /\ e.index + 1 < n) =>
               \E j \in Events("send") :
                 SameCall(k, j) /\ dv.log[j].index = e.index + 1

C14_Witness ==
  /\ dv.s.delivered
  /\ dv.s.content.nchunks = 3
  /\ dv.s.results[1].status = "error"
  /\ dv.s.results[2].status = "failed"
  /\ dv.s.results[3].status = "success"
  /\ \E k \in FailedAnswers :
       dv.log[k].depth = 2 /\ dv.log[k].kind = "throw" /\ dv.log[k].index = 1

\* The recursive (plain-text) calls made so far.
FallbackCalls == {k \in Events("call") : dv.log[k].depth >= 2}

\* C15: within one original delivery call the plain-text fallback is
\* started at most once, whatever the messaging API answers.
C15_FallbackAtMostOnce == Cardinality(FallbackCalls) <= 1

\* C16: the plain-text fallback re-attempts the rejected chunk and the
\* chunks after it only: a chunk whose request was answered OK is not
\* requested again in the same delivery call, and a chunk that a fallback
\* pass has sent is not sent again with its markup.
C16_FallbackOnlyRemaining ==
  /\ \A k \in Events("answer") : \A j \in Events("send") :
       (dv.log[k].kind = "ok" /\ k < j) => dv.log[j].index # dv.log[k].index
  /\ \A k \in Events("send") : \A j \in Events("send") :
       (dv.log[k].depth >= 2 /\ k < j /\ dv.log[j].index = dv.log[k].index)
         => dv.log[j].plain

RateAnswers == {k \in Events("answer") : dv.log[k].kind = "rate"}

\* Seconds the dispatcher has to stay silent after the 429 answer e.
Silence(e) == IF e.retry_after = 0 THEN DefaultRetryAfter ELSE e.retry_after

\* C17: after a 429 answer with retry_after = r no request is issued,
\* neither for the next chunk nor by the plain-text pass, before r seconds
\* have passed; 60 seconds when the answer gives no retry_after.
C17_RetryAfterRespected ==
  \A k \in RateAnswers :
    /\ k = Len(dv.log) => dv.s.pc = "ratewait"
    /\ \A j \in Events("send") :
         k < j => dv.log[j].at >= dv.log[k].at + Silence(dv.log[k]) * 1000

C17_Witness ==
  /\ \E k \in RateAnswers : \E j \in Events("send") :
       /\ dv.log[k].retry_after = 5 /\ dv.log[k].index = 1
       /\ k < j /\ dv.log[j].plain
       /\ dv.log[j].at = dv.log[k].at + 5000
  /\ \E k \in RateAnswers : \E j \in Events("send") :
       /\ dv.log[k].retry_after = 0
       /\ k < j
       /\ dv.log[j].at = dv.log[k].at + 60000

\* C18: at most one sendMessage request is in flight (every request is
\* answered before the next one is issued), and between one request and
\* the next the dispatcher waits max(MESSAGE_DELAY,
\* 60000 / maxRequestsPerMinute) = 3000 ms.
C18_SequentialWithDelay ==
  /\ delayBetweenRequests = 3000
  /\ \A j \in Events("send") : \A k \in Events("send") :
       j < k =>
         /\ \E a \in Events("answer") : j < a /\ a < k
         /\ dv.log[k].at >= dv.log[j].at + delayBetweenRequests

\* C19: whatever the outcome of a manually triggered cycle, the body it
\* answers has a status field that is 'success' or 'error', and on error
\* an error message and a code as well.
C19_StatusAlways ==
  cyc["manual"].pc = "done" =>
    /\ cyc["manual"].resp.status \in {"success", "error"}
    /\ cyc["manual"].resp.status = "error" =>
         (cyc["manual"].resp.error # NULL /\ cyc["manual"].resp.code # NULL)

\* C20: every request of a cycle settles within the request timeout even
\* when the remote side stays silent, so every cycle that has started
\* reaches a terminal state.
C20_CycleTerminates ==
  \A c \in Cycles : (cyc[c].pc # "idle") ~> (cyc[c].pc = "done")

Dated(item) == item.pubDate.kind = "date"

\* C21: parseRSSItems returns the items newest first: of two dated items
\* the earlier in the list has the later date, no undated item stands
\* before a dated one, and no item without a title is returned.
C21_SortedNewestFirst ==
  feed.pc = "parsed" =>
    /\ \A i \in 1..Len(feed.items) : ~Falsy(feed.items[i].title)
    /\ \A i, j \in 1..Len(feed.items) :
         i < j =>
           /\ (Dated(feed.items[i]) /\ Dated(feed.items[j]))
                => feed.items[i].pubDate.t >= feed.items[j].pubDate.t
           /\ ~(~Dated(feed.items[i]) /\ Dated(feed.items[j]))

ScenarioItem == [title |-> "Test", link |-> "http://x/1", guid |-> "g1"]

\* C22: the identity a cycle computes for its item is the guid if the item
\* has one, else the link, else the fingerprint of title + description; a
\* cycle that polled the item (Test, http://x/1, g1) while the store held
\* no record of g1 is past the dedup check as a new item g1 with the
\* generation request issued; and every record is stored under
\* processed_item_<item_id>, this cycle's under the key of its itemId.
C22_IdentityRule ==
  /\ \A c \in Cycles :
       LET s == cyc[c]
       IN /\ (s.item # NoItem /\ s.itemId # NULL) =>
               s.itemId = IF ~Falsy(s.item.guid) THEN s.item.guid
                          ELSE IF ~Falsy(s.item.link) THEN s.item.link
                          ELSE generateItemId(s.item)
          /\ ( /\ s.item = ScenarioItem
               /\ s.pc \notin {"idle", "fetching", "reading"}
               /\ ~store[Key("g1")].present ) =>
               (s.itemId = "g1" /\ s.isNew /\ s.nGemUrl >= 1)
          /\ s.putOk =>
               /\ store[Key(s.itemId)].present
               /\ store[Key(s.itemId)].value.item_id = s.itemId
  /\ \A id \in ItemIds :
       store[Key(id)].present => store[Key(id)].value.item_id = id

\* The scenario: the feed holds the one item, the cycle is generating for
\* itemId g1 with no record of g1 in the store.
C22_Witness ==
  /\ Len(feed.entries) = 1
  /\ Strip(feed.entries[1]) = ScenarioItem
  /\ \E c \in Cycles :
       /\ cyc[c].pc = "gen" /\ cyc[c].op = "gen_url"
       /\ cyc[c].itemId = "g1"
       /\ ~store[Key("g1")].present

C22_RecordWritten ==
  /\ Len(feed.entries) = 1
  /\ \E c \in Cycles :
       /\ cyc[c].pc = "done" /\ cyc[c].putOk /\ cyc[c].item = ScenarioItem
       /\ store[Key("g1")].present

C22_ByLink ==
  \E c \in Cycles : cyc[c].pc = "gen" /\ cyc[c].itemId = "http://x/2"

C22_ByFingerprint ==
  \E c \in Cycles : cyc[c].pc = "done" /\ cyc[c].itemId = "Qw"

\* The item is one a cycle can process (it passes validateRSSItem) and the
\* store holds no record of it.
Unseen(item) ==
  /\ ~ItemIdThrows(Strip(item))
  /\ validateRSSItem(Strip(item)) = NULL
  /\ ~StoreGet(Key(ItemIdOf(Strip(item)))).present

\* C23: a cycle that polls a feed holding an item with no record works on
\* the most recent such item: it does not end as 'Item already processed'
\* while an item of the feed is unseen, and the item it generates for is
\* the first unseen one of the parsed feed.
C23_NewestUnseenProcessed ==
  \A c \in Cycles :
    LET s == cyc[c]
        items == parseRSSItems(feed.entries)
        unseen == {i \in 1..Len(items) : Unseen(items[i])}
    IN /\ (s.pc = "done" /\ s.outcome = "duplicate" /\ ~s.readFailed)
            => unseen = {}
       /\ (s.pc = "gen" /\ ~s.readFailed) =>
            /\ unseen # {}
            /\ s.item = Strip(items[SetMin(unseen)])

PresentKeys == {k \in Keys : store[k].present}

\* A record as markItemAsProcessed writes it for the item id: its item_id
\* is id, its gemini_output is a text the generation backend returned,
\* and it expires ITEM_TTL after it was written.
WellFormedRecord(id) ==
  LET r == store[Key(id)]
  IN /\ r.value.item_id = id
     /\ r.value.gemini_output \in {a.text.words : a \in OverlapGeminiAnswers}
     /\ r.value.gemini_output # <<>>
     /\ r.value.processed_at <= now
     /\ r.expires = r.value.processed_at + ITEM_TTL

\* C24: with a manual and a scheduled cycle overlapping at will, every key
\* in the store is processed_item_<id> with a well-formed record of id
\* whose text a cycle generated, a write adds at most the key of the
\* writing cycle's item and removes none, and a write under a key that is
\* already present leaves the set of keys as it was.
C24_StoreIntactUnderOverlap ==
  /\ [](\A id \in ItemIds : store[Key(id)].present => WellFormedRecord(id))
  /\ [][ /\ PresentKeys \subseteq PresentKeys'
         /\ \A c \in Cycles :
              (cyc[c].pc = "marking" /\ cyc'[c].pc = "done") =>
                 /\ PresentKeys' \subseteq PresentKeys \cup {Key(cyc[c].itemId)}
                 /\ Key(cyc[c].itemId) \in PresentKeys
                      => PresentKeys' = PresentKeys
         /\ (\A c \in Cycles : ~(cyc[c].pc = "marking" /\ cyc'[c].pc = "done"))
              => store' = store ]_vars

\* Both cycles read the store before either wrote, both found the item new,
\* and both have written its record.
C24_Witness ==
  /\ \A c \in Cycles :
       /\ cyc[c].pc = "done" /\ cyc[c].putOk
       /\ cyc[c].isNew /\ ~cyc[c].readFailed
       /\ cyc[c].itemId = "g1"
  /\ store[Key("g1")].present

\* C25: the Telegraph page is requested only when the access token is
\* configured, and then once per generated text; a failed page creation is
\* kept as the telegraph result, the delivery call is made all the same,
\* and the cycle that delivered ends with result status 'success' after
\* its write of the dedup record, which is stored when the put succeeds.
C25_TelegraphIndependent ==
  \A c \in Cycles :
    LET s == cyc[c]
    IN /\ s.nTgraph > 0 => env.telegraphToken
       /\ s.nTgraph <= 1
       /\ (env.telegraphToken /\ s.nMsg > 0) => s.telegraph \in {"ok", "failed"}
       /\ s.telegraph = "failed" =>
            /\ s.nMsg >= 1
            /\ s.pc # "telegraph"
            /\ s.pc = "done" =>
                 /\ s.delivered /\ s.nPut = 1
                 /\ s.outcome = "done"
                 /\ s.resp.http = 200 /\ s.resp.status = "success"
                 /\ s.putOk => store[Key(s.itemId)].present

\* A cycle whose page creation failed has delivered every chunk and
\* written its record.
C25_Witness ==
  \E c \in Cycles :
    /\ cyc[c].pc = "done" /\ cyc[c].telegraph = "failed"
    /\ cyc[c].delivered /\ cyc[c].putOk
    /\ cyc[c].resp.status = "success"
    /\ \A i \in 1..Len(cyc[c].results) : cyc[c].results[i].status = "success"
    /\ store[Key(cyc[c].itemId)].present

\* C26: once the URL-context strategy and the extraction fallback have
\* both thrown, the cycle is over with an error response of HTTP status
\* 500, on the manual and on the scheduled path alike; nothing was sent,
\* published or recorded, each request of the item was made at most
\* MAX_RETRIES times, and the cycle makes no further request.
C26_BothFailSurfaced ==
  /\ [](\A c \in Cycles :
          LET s == cyc[c]
          IN (s.urlThrew /\ s.fallbackThrew) =>
               /\ s.pc = "done" /\ s.outcome = "error"
               /\ s.resp.http = 500 /\ s.resp.status = "error"
               /\ s.nMsg = 0 /\ s.nTgraph = 0 /\ s.nPut = 0
               /\ s.nGemUrl <= MAX_RETRIES
               /\ s.nArt <= MAX_RETRIES
               /\ s.nGemHtml <= MAX_RETRIES)
  /\ [][\A c \in Cycles :
          (cyc[c].urlThrew /\ cyc[c].fallbackThrew) =>
             (cyc'[c] = cyc[c] \/ cyc'[c] = IdleCycle)]_vars

\* The manual trigger has answered 500 after both strategies threw, each
\* strategy having used all its attempts.
C26_Witness ==
  /\ cyc["manual"].pc = "done"
  /\ cyc["manual"].urlThrew /\ cyc["manual"].fallbackThrew
  /\ cyc["manual"].resp.http = 500
  /\ cyc["manual"].nGemUrl = MAX_RETRIES
  /\ cyc["manual"].nArt + cyc["manual"].nGemHtml >= MAX_RETRIES

C26_WitnessScheduled ==
  /\ cyc["scheduled"].pc = "done"
  /\ cyc["scheduled"].urlThrew /\ cyc["scheduled"].fallbackThrew

\* C27: every record is written to expire ITEM_TTL (7 days) after its
\* write, and a cycle whose store read succeeds for an id whose last
\* record was written ITEM_TTL or longer ago finds the item new and, for a
\* valid item, issues the generation request for it again.
C27_ReprocessAfterTtl ==
  /\ ITEM_TTL = 7 * 24 * 60 * 60
  /\ [](\A id \in ItemIds :
          store[Key(id)].present =>
            store[Key(id)].expires = store[Key(id)].value.processed_at + ITEM_TTL)
  /\ [][\A c \in Cycles :
          (/\ cyc[c].pc = "reading"
           /\ cyc'[c].pc # "reading"
           /\ ~cyc'[c].readFailed
           /\ hist.marked[cyc[c].itemId] >= 0
           /\ now >= hist.marked[cyc[c].itemId] + ITEM_TTL) =>
            /\ cyc'[c].isNew
            /\ cyc'[c].outcome # "duplicate"
            /\ validateRSSItem(cyc[c].item) = NULL =>
                 (cyc'[c].pc = "gen" /\ cyc'[c].nGemUrl = 1)]_vars

\* An item recorded ITEM_TTL ago was read as new, rewritten and delivered
\* again, and is about to be recorded again.
C27_Witness ==
  \E c \in Cycles :
    /\ cyc[c].pc = "marking"
    /\ ~cyc[c].readFailed /\ cyc[c].isNew /\ cyc[c].delivered
    /\ \A i \in 1..Len(cyc[c].results) : cyc[c].results[i].status = "success"
    /\ hist.marked[cyc[c].itemId] >= 0
    /\ now >= hist.marked[cyc[c].itemId] + ITEM_TTL

NoContainer(html) ==
  \A i \in 1..Len(html) : html[i].kind \notin {"article", "main"}

ParagraphText(html) == SumChars(OfKind(html, "p"))

\* C28 as stated: extractMainContent throws for every page with no content
\* container and fewer than 100 characters of paragraph text.
C28_Original ==
  (page.pc = "returned" /\ NoContainer(page.html)
     /\ ParagraphText(page.html) < 100) => page.threw

\* C28, amended: extractMainContent throws for every such page whose
\* whole document, the removed elements apart, has fewer than 100
\* characters of text.
C28_ThrowsOnThinDocument ==
  ( /\ page.pc = "returned"
    /\ NoContainer(page.html)
    /\ ParagraphText(page.html) < 100
    /\ cleanTextContent(RemoveUnwanted(page.html)) < 100 ) => page.threw

\* A page of two short paragraphs was given and the call threw.
C28_Witness ==
  /\ page.pc = "returned" /\ page.threw
  /\ Len(page.html) = 2
  /\ \A i \in 1..2 : page.html[i].kind = "p"

\* The place of a cycle's position in the state machine of the spec.
Phase(pc) ==
  CASE pc = "idle" -> 0
    [] pc = "fetching" -> 1
    [] pc = "reading" -> 2
    [] pc \in {"gen", "extract", "backoff"} -> 3
    [] pc = "telegraph" -> 4
    [] pc \in {"sending", "ratewait", "delay"} -> 5
    [] pc = "marking" -> 6
    [] OTHER -> 7

\* The order of the requests within the generation phase.
OpRank(op) ==
  CASE op = "gen_url" -> 1
    [] op = "extract" -> 2
    [] op = "gen_html" -> 3
    [] OTHER -> 4

\* C29: a cycle only moves forward through fetch, dedup read, generation
\* (URL-context request, then article fetch, then request on the extracted
\* text), page publish, delivery, record write, end: every generation or
\* article request comes after a dedup read that found the item new, no
\* publish or messaging request is made before a strategy returned text,
\* the record is written only after the delivery call returned, and a
\* cycle that has ended (error, duplicate, no item or done) does nothing
\* more until the next trigger.
C29_StateMachineOrder ==
  /\ [](\A c \in Cycles :
          LET s == cyc[c]
          IN /\ (s.nGemUrl + s.nGemHtml + s.nArt > 0) =>
                  (s.nGet = 1 /\ s.isNew /\ Phase(s.pc) >= 3)
             /\ s.nGet > 0 => s.item # NoItem
             /\ (s.nMsg + s.nTgraph > 0) =>
                  (s.content # NoText /\ s.nGemUrl >= 1 /\ Phase(s.pc) >= 4)
             /\ s.nPut > 0 => (s.delivered /\ s.nMsg >= 1 /\ Phase(s.pc) >= 6)
             /\ Phase(s.pc) = 7 => s.outcome \in {"error", "duplicate", "none", "done"})
  /\ [][\A c \in Cycles :
          /\ Phase(cyc'[c].pc) >= Phase(cyc[c].pc) \/ cyc'[c] = IdleCycle
          /\ (Phase(cyc[c].pc) = 3 /\ Phase(cyc'[c].pc) = 3) =>
               OpRank(cyc'[c].op) >= OpRank(cyc[c].op)
          /\ cyc[c].pc = "done" =>
               /\ cyc'[c] = cyc[c] \/ cyc'[c] = IdleCycle
               /\ cyc'[c] # cyc[c] => store' = store]_vars

\* A cycle went through every phase: both generation strategies, the page
\* publish, the delivery, and the record write.
C29_Witness ==
  \E c \in Cycles :
    /\ cyc[c].pc = "done" /\ cyc[c].outcome = "done"
    /\ cyc[c].nGet = 1 /\ cyc[c].nGemUrl >= 1 /\ cyc[c].nArt >= 1
    /\ cyc[c].nGemHtml >= 1 /\ cyc[c].nTgraph = 1 /\ cyc[c].nMsg >= 1
    /\ cyc[c].nPut = 1

\* C30: one delivery call issues a bounded number of sendMessage
\* requests: at most one per chunk in the rich pass and one per chunk in
\* a single plain-text pass.
C30_RequestsBounded ==
  Cardinality(Events("send")) <= 2 * dv.s.content.nchunks

\* C31: every message processContent returns holds at least one character
\* that is not whitespace.
C31_NoEmptyChunk ==
  sp.pc = "formatted" =>
    \A i \in 1..Len(sp.chunks) : trim(sp.chunks[i]) # <<>>

\* The sentences of the long paragraphs of a text that alone exceed
\* maxLength.
LongUnits(text, maxLength) ==
  LET ps == splitParagraphs(text)
  IN UNION { LET ss == splitSentences(ps[i])
             IN {ss[k] : k \in {k \in 1..Len(ss) : /\ trim(ss[k]) # <<>>
                                                   /\ Len(ss[k]) > maxLength}}
             : i \in {i \in 1..Len(ps) : Len(ps[i]) > maxLength} }

\* C32: every sentence that alone exceeds maxLength (maxLength at least 3)
\* is among the returned chunks as its first maxLength - 3 characters
\* followed by '...'.
C32_LongUnitTruncated ==
  (sp.pc = "returned" /\ sp.maxLength >= 3 /\ Len(sp.text) > sp.maxLength) =>
    \A u \in LongUnits(sp.text, sp.maxLength) :
      \E i \in 1..Len(sp.chunks) :
        sp.chunks[i] = substring0(u, sp.maxLength - 3) \o <<".", ".", ".">>

\* A cycle whose processRSSItem call ended in its catch block: the item
\* was new, the cycle ended in error and no record write was started.
ProcessingFailed(s) ==
  s.pc = "done" /\ s.outcome = "error" /\ s.isNew /\ s.nPut = 0

\* C33: when the processing of an item fails, processRSSItem resolves to an
\* error result, so the cycle's response is the result with the item's
\* identity, and its code is the failure's own code (MISSING_LINK for an
\* item without link), never handleRSSCheck's UNKNOWN_ERROR.
C33_ErrorResultReachesResponse ==
  \A c \in Cycles :
    ProcessingFailed(cyc[c]) =>
      /\ cyc[c].resp.status = "error"
      /\ cyc[c].resp.item_id = cyc[c].itemId
      /\ cyc[c].resp.code # "UNKNOWN_ERROR"
      /\ validateRSSItem(cyc[c].item) # NULL =>
           cyc[c].resp.code = validateRSSItem(cyc[c].item)

\* C34: every handleRSSCheck call that has ended resolved to a Response,
\* HTTP 200 or 500, whatever failed on the way; a call that ended in error
\* resolved to the 500 response of the catch block, with status 'error'
\* and a code. This holds for the manual and for the scheduled trigger.
C34_AlwaysResolvesToResponse ==
  \A c \in Cycles :
    cyc[c].pc = "done" =>
      /\ cyc[c].resp # NoResp
      /\ cyc[c].resp.http \in {200, 500}
      /\ cyc[c].outcome = "error" =>
           /\ cyc[c].resp.http = 500
           /\ cyc[c].resp.status = "error"
           /\ cyc[c].resp.code # NULL

\* A scheduled cycle whose processing threw after both strategies failed,
\* and that still resolved to a response.
C34_Witness ==
  /\ ProcessingFailed(cyc["scheduled"])
  /\ cyc["scheduled"].fallbackThrew
  /\ cyc["scheduled"].resp.http = 500

\* A manual cycle whose feed request failed, resolved to a response.
C34_WitnessManual ==
  /\ cyc["manual"].pc = "done"
  /\ cyc["manual"].outcome = "error"
  /\ cyc["manual"].nGet = 0
  /\ cyc["manual"].resp.code = "FETCH_ERROR"

\* The blocks of the text the last feed request returned.
BlocksOfKind(kind) ==
  {i \in 1..Len(feed.entries) : feed.entries[i].tag = kind}

\* C35: a cycle that read a feed text (not blank) in which no <item> and
\* no <entry> block is found got the empty list from the parser and ended
\* with 200 'No items found', with no store read or write and no
\* generation, article, page or messaging request; and when the text holds
\* an <item> block, every parsed item comes from an <item> block.
C35_NoBlockIsNotAnError ==
  /\ \A c \in Cycles :
       (cyc[c].pc # "idle" /\ cyc[c].pc # "fetching" /\ feed.pc = "text"
          /\ BlocksOfKind("item") = {} /\ BlocksOfKind("entry") = {}) =>
         /\ feed.items = <<>>
         /\ cyc[c].pc = "done"
         /\ cyc[c].outcome = "none"
         /\ cyc[c].resp.http = 200
         /\ cyc[c].resp.message = "No items found"
         /\ cyc[c].nGet = 0
         /\ NoRequests(cyc[c])
  /\ (feed.pc = "text" /\ BlocksOfKind("item") # {}) =>
       \A k \in 1..Len(feed.items) :
         \E i \in BlocksOfKind("item") :
           feed.items[k] = parseRSSItem(feed.entries[i])

\* A cycle has read a text with no block and ended with 'No items found'.
C35_Witness ==
  \E c \in Cycles :
    /\ cyc[c].pc = "done" /\ cyc[c].outcome = "none"
    /\ feed.pc = "text" /\ feed.entries = <<>>

\* A text of <entry> blocks only: its entries are parsed and one is taken.
C35_WitnessEntries ==
  \E c \in Cycles :
    /\ cyc[c].pc = "reading"
    /\ feed.pc = "text" /\ BlocksOfKind("item") = {}
    /\ Len(feed.items) = 2

\* A text with blocks of both kinds: only the <item> block is parsed.
C35_WitnessBothKinds ==
  /\ feed.pc = "text"
  /\ BlocksOfKind("item") # {} /\ BlocksOfKind("entry") # {}
  /\ Len(feed.items) = 1

\* The URL a <link> element gives: its text, or its href attribute when it
\* has no text.
LinkValue(el) == IF el.body # "" THEN el.body ELSE el.href

\* C40: every titled block taken from the text, whose <link> element
\* carries a well-formed URL as its text or as its href attribute
\* (empty-bodied or self-closing), gives a parsed item whose link is that
\* URL and which passes validateRSSItem.
C40_LinkFromTextOrHref ==
  feed.pc = "text" =>
    \A i \in 1..Len(feed.entries) :
      LET b == feed.entries[i]
      IN (HasTitle(b) /\ b.link.kind # "absent"
            /\ WellFormedUrl(LinkValue(b.link))
            /\ (b.tag = "item" \/ BlocksOfKind("item") = {})) =>
           \E k \in 1..Len(feed.items) :
             /\ feed.items[k].title = b.title
             /\ feed.items[k].guid = b.guid
             /\ feed.items[k].link = LinkValue(b.link)
             /\ validateRSSItem(feed.items[k]) = NULL

\* The content containers of a page that the selectors see.
Containers(html) ==
  LET Is(e) == e.kind \in {"article", "main"}
  IN SelectSeq(RemoveUnwanted(html), Is)

\* C36: on a page where no content container is longer than 500 characters
\* and whose <p> blocks joined make a text of 200 characters or more, the
\* text extractMainContent returns is the text of all the <p> blocks,
\* whatever a container of 500 characters or fewer holds.
C36_ParagraphsUnlessSubstantial ==
  LET paragraphs == OfKind(RemoveUnwanted(page.html), "p")
      containers == Containers(page.html)
  IN ( /\ page.pc = "returned"
       /\ \A i \in 1..Len(containers) : RawLength(containers[i]) <= 500
       /\ paragraphs # <<>>
       /\ JoinedLength(paragraphs) >= 200 ) =>
       /\ ~page.threw
       /\ page.length = cleanTextContent(paragraphs)

\* The item has no title, or its link is missing, empty or not a URL.
Invalid(item) ==
  Falsy(item.title) \/ Falsy(item.link) \/ ~WellFormedUrl(item.link)

\* C37: a cycle whose item has a missing, empty or malformed link (or no
\* title) makes no generation, article, page or messaging request and
\* starts no write of a dedup record.
C37_InvalidItemNotProcessed ==
  \A c \in Cycles :
    (cyc[c].item # NoItem /\ Invalid(cyc[c].item)) => NoRequests(cyc[c])

\* A new item whose link is not a URL went through validation: the cycle
\* ended in error with nothing requested.
C37_Witness ==
  \E c \in Cycles :
    /\ ProcessingFailed(cyc[c])
    /\ cyc[c].item.link = "not a url"
    /\ NoRequests(cyc[c])

\* The same for an item with no link and for one with an empty link.
C37_WitnessMissing ==
  \E c \in Cycles : ProcessingFailed(cyc[c]) /\ cyc[c].item.link = NULL

C37_WitnessEmpty ==
  \E c \in Cycles : ProcessingFailed(cyc[c]) /\ cyc[c].item.link = ""

\* The requests the messaging API has answered OK so far.
AcceptedAnswers == {k \in Events("answer") : dv.log[k].kind = "ok"}

\* C38: within one delivery call the messaging API never accepts a chunk
\* after it has accepted a later chunk: the accepted requests, in the
\* order of their answers, go by chunk index without stepping back.
C38_AcceptedInReadingOrder ==
  \A k \in AcceptedAnswers : \A j \in AcceptedAnswers :
    k < j => dv.log[j].index >= dv.log[k].index

\* The write of processed_item_<id> has completed and its TTL is running.
WriteCompleted(id) ==
  hist.marked[id] >= 0 /\ now < hist.marked[id] + ITEM_TTL

\* C39: while cycles overlap, a dedup check that settles with a successful
\* read after a write of the item's record has completed ends the cycle in
\* DUPLICATE with no request and no write; so a cycle goes on to publish
\* an item (its read succeeding) only when its check came before every
\* completed write of the record.
C39_DuplicateOnceWritten ==
  [][\A c \in Cycles :
       (/\ cyc[c].pc = "reading"
        /\ cyc'[c].pc # "reading"
        /\ ~cyc'[c].readFailed) =>
         /\ WriteCompleted(cyc[c].itemId) =>
              (/\ cyc'[c].pc = "done"
               /\ cyc'[c].outcome = "duplicate"
               /\ NoRequests(cyc'[c])
               /\ store' = store)
         /\ cyc'[c].isNew => ~WriteCompleted(cyc[c].itemId)]_vars

\* A cycle ended in DUPLICATE on the record the other cycle, still at its
\* end, has written.
C39_Witness ==
  \E c \in Cycles : \E d \in Cycles \ {c} :
    /\ cyc[c].outcome = "duplicate" /\ ~cyc[c].readFailed
    /\ cyc[d].pc = "done" /\ cyc[d].putOk
    /\ cyc[d].itemId = cyc[c].itemId

\* Both cycles read before the first write and both publish the item.
C39_WitnessTwice ==
  \E c \in Cycles : \E d \in Cycles \ {c} :
    /\ cyc[c].itemId = cyc[d].itemId
    /\ ~cyc[c].readFailed /\ ~cyc[d].readFailed
    /\ cyc[c].delivered /\ cyc[d].delivered
    /\ cyc[c].putOk /\ cyc[d].pc = "marking"

====
